---------------------------- MODULE Spec2Model ----------------------------
(***************************************************************************)
(* Model of the creature simulation of wealth-ocean-visualizer:            *)
(* FishSchool (src/src/creatures/FishSchool.js) driven by the animation    *)
(* loop of src/src/main.js, with the archetype tables of                   *)
(* creatureConfig.js / wealthData.js (src/unnamed/part_002).               *)
(*                                                                         *)
(* Numbers are fixed point:                                                *)
(*   positions and lengths   1 world unit        = 1000                    *)
(*   velocities and forces   1 world unit / s    = 10000                   *)
(*   time                    1 s                 = 1000                    *)
(*   angles                  1 rad               = 1000                    *)
(* Divisions round toward zero (Quot); the JavaScript code rounds to the   *)
(* nearest double instead.  Comparisons of lengths are made on the squares *)
(* and are exact.                                                          *)
(***************************************************************************)
EXTENDS Integers, Sequences, FiniteSets, TLC

VARIABLES
  creatureType,   \* FishSchool.creatureType (key of CREATURE_TYPES)
  fishes,         \* FishSchool.fishes: sequence of fish records
  time,           \* FishSchool.time (ms)
  matrices,       \* FishSchool.mesh instance matrices, one per fish
  lastTick,       \* history: inputs and per-fish force trace of the last update
  ticks,          \* history: number of update calls so far
  startFishes,    \* history: FishSchool.fishes when the last update began
  scenario,       \* history: which family of program states Init drew from
  calls,          \* history: the first two calls of getNeighbors from outside update
  restored,       \* a second school, built from the saved fields of the fish of the first
  outsideFor,     \* history: per fish, the ticks of positive deltaTime in a row that
                  \* ended with the fish outside its depth band
  tables,         \* the keys of CREATURE_TYPES and SWIM_PATTERNS as imported
  thrown,         \* the error that escaped the constructor or the last update, if any
  mesh,           \* FishSchool.mesh: geometry, visible, material.envMap, and whether
                  \* the scene holds it
  modelLoaded,    \* FishSchool.modelLoaded
  load,           \* the promise of FishSchool.loadModel: pending, resolved, rejected
  whaleController,\* CreatureManager.whaleController: whales, time, modelGeometry, load,
                  \* envMap (also material.envMap of every whale), and whether the
                  \* scene holds the meshes and labels of the whales
  lastWhaleTick,  \* history: inputs and per-whale trace of the last WhaleController.update
  viewer,         \* camera.position, as the last call that was given it left it
  lastCall,       \* history: the last call that was given camera.position
  app             \* window.wealthOcean: the WealthOcean instance with its clock,
                  \* camera, controls, camera path, HUD and post-processing

vars ==
  <<creatureType, fishes, time, matrices, lastTick, ticks, startFishes, scenario, calls,
    restored, outsideFor, tables, thrown, mesh, modelLoaded, load, whaleController,
    lastWhaleTick, viewer, lastCall, app>>

---------------------------------------------------------------------------
(* Bounds of the model *)

\* update calls per behaviour
MaxTicks == 2

\* fish per school (config.schoolSize of the schools the model constructs)
NumFish == 3

\* fish in a school whose sampler is called from outside update
NumSampled == 5

---------------------------------------------------------------------------
(* Integer helpers *)

Abs(a) == IF a < 0 THEN -a ELSE a

Sign(a) == IF a < 0 THEN -1 ELSE IF a > 0 THEN 1 ELSE 0

\* division rounding toward zero
Quot(a, b) == IF a >= 0 THEN a \div b ELSE -((-a) \div b)

Max2(a, b) == IF a >= b THEN a ELSE b

Min2(a, b) == IF a <= b THEN a ELSE b

RECURSIVE SqrtIter(_, _, _)
\* largest r in lo..hi with r*r <= n  (lo*lo <= n < (hi+1)^2)
SqrtIter(n, lo, hi) ==
  IF lo >= hi THEN lo
  ELSE LET mid == (lo + hi + 1) \div 2
       IN IF mid * mid <= n THEN SqrtIter(n, mid, hi) ELSE SqrtIter(n, lo, mid - 1)

\* Math.sqrt, rounded down; n < 2^31
ISqrt(n) == SqrtIter(n, 0, 46340)

---------------------------------------------------------------------------
(* THREE.Vector3 *)

Vec(a, b, c) == [x |-> a, y |-> b, z |-> c]

Zero == Vec(0, 0, 0)

VAdd(a, b) == Vec(a.x + b.x, a.y + b.y, a.z + b.z)

VSub(a, b) == Vec(a.x - b.x, a.y - b.y, a.z - b.z)

\* Vector3.multiplyScalar(num/den)
VScale(a, num, den) == Vec(Quot(a.x * num, den), Quot(a.y * num, den), Quot(a.z * num, den))

\* Vector3.divideScalar(n), n > 0
VDiv(a, n) == Vec(Quot(a.x, n), Quot(a.y, n), Quot(a.z, n))

\* Vector3.lengthSq
LengthSq(a) == a.x * a.x + a.y * a.y + a.z * a.z

MaxAbs(a) == Max2(Abs(a.x), Max2(Abs(a.y), Abs(a.z)))

\* A vector of the same direction whose largest component is between 13000
\* and 26000: its squares fit the integer range and its rounded length is
\* within 1/13000 of the exact one.
ReducedFrom(a, m) ==
  IF m > 26000 THEN VDiv(a, m \div 26000 + 1)
  ELSE IF m > 0 /\ m <= 13000
         THEN Vec(a.x * (26000 \div m), a.y * (26000 \div m), a.z * (26000 \div m))
         ELSE a

Reduced(a) == ReducedFrom(a, MaxAbs(a))

\* Vector3.length
Length(a) == ISqrt(LengthSq(a))

\* v.normalize().multiplyScalar(mag): normalize() divides by (length() || 1),
\* so the zero vector stays the zero vector
Resized(r, len, mag) == IF len = 0 THEN Zero ELSE VScale(r, mag, len)

OfLength(r, mag) == Resized(r, Length(r), mag)

SetLength(a, mag) == OfLength(Reduced(a), mag)

\* whether a.distanceTo(b) < radius, decided on the squares without overflow
ShorterThan(d, radius) ==
  /\ Abs(d.x) < radius
  /\ Abs(d.y) < radius
  /\ Abs(d.z) < radius
  /\ LengthSq(d) < radius * radius

CloserThan(a, b, radius) == ShorterThan(VSub(a, b), radius)

---------------------------------------------------------------------------
(* Configuration tables: creatureConfig.js and wealthData.js *)

\* CREATURE_TYPES: baseSize, sizeVariation, schoolRadius in position units,
\* speed in velocity units
CREATURE_TYPES ==
  [ krill    |-> [baseSize |-> 50,   sizeVariation |-> 20,  speed |-> 3000,
                  schoolSize |-> 5000, schoolRadius |-> 40000, swimPattern |-> "swarm"],
    anchovy  |-> [baseSize |-> 150,  sizeVariation |-> 50,  speed |-> 5000,
                  schoolSize |-> 3000, schoolRadius |-> 35000, swimPattern |-> "school"],
    mackerel |-> [baseSize |-> 300,  sizeVariation |-> 100, speed |-> 7000,
                  schoolSize |-> 1500, schoolRadius |-> 45000, swimPattern |-> "school"],
    tuna     |-> [baseSize |-> 800,  sizeVariation |-> 300, speed |-> 10000,
                  schoolSize |-> 500,  schoolRadius |-> 50000, swimPattern |-> "loose"],
    shark    |-> [baseSize |-> 2000, sizeVariation |-> 500, speed |-> 8000,
                  schoolSize |-> 100,  schoolRadius |-> 80000, swimPattern |-> "patrol"],
    orca     |-> [baseSize |-> 5000, sizeVariation |-> 1000, speed |-> 6000,
                  schoolSize |-> 30,   schoolRadius |-> 100000, swimPattern |-> "pod"],
    whale    |-> [baseSize |-> 15000, sizeVariation |-> 5000, speed |-> 3000,
                  schoolSize |-> 10,   schoolRadius |-> 150000, swimPattern |-> "solitary"] ]

\* SWIM_PATTERNS: cohesion, separation, alignment, noise in tenths,
\* verticalBias in hundredths
SWIM_PATTERNS ==
  [ swarm    |-> [cohesion |-> 3, separation |-> 5,  alignment |-> 2, noise |-> 8, verticalBias |-> 10],
    school   |-> [cohesion |-> 6, separation |-> 4,  alignment |-> 7, noise |-> 3, verticalBias |-> 20],
    loose    |-> [cohesion |-> 3, separation |-> 6,  alignment |-> 4, noise |-> 5, verticalBias |-> 30],
    patrol   |-> [cohesion |-> 1, separation |-> 8,  alignment |-> 2, noise |-> 4, verticalBias |-> 20],
    pod      |-> [cohesion |-> 5, separation |-> 5,  alignment |-> 6, noise |-> 2, verticalBias |-> 10],
    solitary |-> [cohesion |-> 0, separation |-> 10, alignment |-> 0, noise |-> 3, verticalBias |-> 5] ]

\* WEALTH_BRACKETS[..].depth of the bracket of each creature, in position units
BracketDepth ==
  [ krill    |-> [min |-> 180000, max |-> 200000],
    anchovy  |-> [min |-> 140000, max |-> 180000],
    mackerel |-> [min |-> 100000, max |-> 140000],
    tuna     |-> [min |-> 60000,  max |-> 100000],
    shark    |-> [min |-> 30000,  max |-> 60000],
    orca     |-> [min |-> 10000,  max |-> 30000],
    whale    |-> [min |-> 0,      max |-> 10000] ]

\* WEALTH_BRACKETS in array order: id, creature and depth band of each bracket
WEALTH_BRACKETS ==
  << [id |-> "extreme_poverty", creature |-> "krill",    depth |-> BracketDepth["krill"]],
     [id |-> "poverty",         creature |-> "anchovy",  depth |-> BracketDepth["anchovy"]],
     [id |-> "lower_middle",    creature |-> "mackerel", depth |-> BracketDepth["mackerel"]],
     [id |-> "middle",          creature |-> "tuna",     depth |-> BracketDepth["tuna"]],
     [id |-> "affluent",        creature |-> "shark",    depth |-> BracketDepth["shark"]],
     [id |-> "wealthy",         creature |-> "orca",     depth |-> BracketDepth["orca"]],
     [id |-> "billionaire",     creature |-> "whale",    depth |-> BracketDepth["whale"]] >>

\* this.config, this.pattern, this.bracket.depth of the school
Config == CREATURE_TYPES[creatureType]

Pattern == SWIM_PATTERNS[Config.swimPattern]

DepthRange == BracketDepth[creatureType]

\* the archetypes whose schools the model constructs
Archetypes == {"krill", "tuna"}

---------------------------------------------------------------------------
(* FishSchool.initializeFish *)

\* cos and sin of the placement angle, for the quarter turns
CosQ(q) == CASE q = 0 -> 1 [] q = 1 -> 0 [] q = 2 -> -1 [] OTHER -> 0

SinQ(q) == CASE q = 0 -> 0 [] q = 1 -> 1 [] q = 2 -> 0 [] OTHER -> -1

\* One fish from the values Math.random() returned for it.  rnd holds each
\* draw in hundredths (0..99), rnd.angle the quarter turn of the angle.
NewFish(cfg, depthRange, rnd) ==
  LET depth == -(depthRange.min + Quot(rnd.depth * (depthRange.max - depthRange.min), 100))
      r == Quot(rnd.r * cfg.schoolRadius, 100)
  IN [ position |-> Vec(CosQ(rnd.angle) * r + (rnd.jx - 50) * 2000,
                        depth,
                        SinQ(rnd.angle) * r + (rnd.jz - 50) * 2000),
       velocity |-> Vec(Quot((rnd.vx - 50) * cfg.speed, 100),
                        Quot((rnd.vy - 50) * cfg.speed, 500),
                        Quot((rnd.vz - 50) * cfg.speed, 100)),
       scale |-> cfg.baseSize + Quot((rnd.scale - 50) * cfg.sizeVariation, 50),
       phase |-> Quot(rnd.phase * 6283, 100),
       swimFrequency |-> 6000 + rnd.freq * 40 ]

---------------------------------------------------------------------------
(* FishSchool.getNeighbors *)

\* (mutant) the candidates taken one after the other
CheckIndexAdjacent(index, i, n) == (index + i) % n

\* (mutant) the candidates shifted by the number of updates so far
CheckIndexDrifting(index, i, n) == (index + i * 7 + ticks) % n

\* checkIndex of iteration i in a population of n
CheckIndex(index, i, n) == (index + i * 7) % n

RECURSIVE NeighborLoop(_, _, _, _, _)
\* the for loop of getNeighbors from iteration i on; neighbors is the list so far
NeighborLoop(fs, index, count, i, neighbors) ==
  IF i >= Min2(count, Len(fs)) THEN neighbors
  ELSE IF /\ CheckIndex(index, i, Len(fs)) # index
          /\ CloserThan(fs[index + 1].position,
                        fs[CheckIndex(index, i, Len(fs)) + 1].position,
                        Quot(Config.schoolRadius * 3, 10))
         THEN NeighborLoop(fs, index, count, i + 1,
                           Append(neighbors, CheckIndex(index, i, Len(fs))))
         ELSE NeighborLoop(fs, index, count, i + 1, neighbors)

\* getNeighbors(fish, index, count) with fish = fishes[index]: the list of the
\* (0-based) indices of the fish returned, in the order they are pushed
GetNeighbors(fs, index, count) == NeighborLoop(fs, index, count, 0, <<>>)

---------------------------------------------------------------------------
(* FishSchool.applySwimmingBehavior *)

RECURSIVE SumOver(_, _, _)
\* neighbors.forEach(n => acc.add(n[field]))
SumOver(fs, neighbors, field) ==
  IF neighbors = <<>> THEN Zero
  ELSE VAdd(fs[Head(neighbors) + 1][field], SumOver(fs, Tail(neighbors), field))

\* (mutant) separation from every sampled neighbour, whatever its distance
SeparationTermAnyRange(pos, other) ==
  LET diff == VSub(pos, other)
  IN IF diff # Zero THEN VScale(diff, 100000, LengthSq(diff)) ELSE Zero

\* one neighbour's term of the separation sum: diff.normalize().divideScalar(dist),
\* that is diff / dist^2 (kept in units of 1/100000), when 0 < dist < 5 * baseSize
SeparationTerm(pos, other) ==
  LET diff == VSub(pos, other)
  IN IF diff # Zero /\ CloserThan(pos, other, Config.baseSize * 5)
       THEN VScale(diff, 100000, LengthSq(diff))
       ELSE Zero

RECURSIVE SeparationSum(_, _, _)
SeparationSum(fs, pos, neighbors) ==
  IF neighbors = <<>> THEN Zero
  ELSE VAdd(SeparationTerm(pos, fs[Head(neighbors) + 1].position),
            SeparationSum(fs, pos, Tail(neighbors)))

\* (mutant) cohesion without the test of neighbors.length, the count floored
\* at 1: a fish without neighbours is pulled toward the origin
CohesionForceUnguarded(fs, pos, neighbors) ==
  IF Pattern.cohesion > 0
    THEN SetLength(VSub(VDiv(SumOver(fs, neighbors, "position"), Max2(Len(neighbors), 1)),
                        pos),
                   Pattern.cohesion * 10)
    ELSE Zero

\* cohesion force on a fish at pos
CohesionForce(fs, pos, neighbors) ==
  IF Len(neighbors) > 0 /\ Pattern.cohesion > 0
    THEN LET center == VDiv(SumOver(fs, neighbors, "position"), Len(neighbors))
         IN SetLength(VSub(center, pos), Pattern.cohesion * 10)
    ELSE Zero

\* separation force on a fish at pos
SeparationForce(fs, pos, neighbors) ==
  IF Len(neighbors) > 0 /\ Pattern.separation > 0
    THEN SetLength(SeparationSum(fs, pos, neighbors), Pattern.separation * 20)
    ELSE Zero

\* alignment force on a fish of velocity vel
AlignmentForce(fs, vel, neighbors) ==
  IF Len(neighbors) > 0 /\ Pattern.alignment > 0
    THEN LET avgVelocity == VDiv(SumOver(fs, neighbors, "velocity"), Len(neighbors))
         IN VScale(VSub(avgVelocity, vel), Pattern.alignment, 200)
    ELSE Zero

\* the noise vector from the three Math.random() values rnd (hundredths, 0..99)
NoiseForce(rnd) ==
  IF Pattern.noise > 0
    THEN Vec(Quot((rnd.x - 50) * Pattern.noise, 10),
             Quot((rnd.y - 50) * Pattern.noise * Pattern.verticalBias, 2000),
             Quot((rnd.z - 50) * Pattern.noise, 10))
    ELSE Zero

\* the flee radius, in position units
FleeRadius == 25000

\* (mutant) the full flee strength at every distance within the radius
FleeGainFlat(dist) == 300

\* 0.03 * fleeStrength, in velocity units, at camera distance dist < FleeRadius
FleeGain(dist) == Quot(3 * (FleeRadius - dist), 250)

\* the flee vector added for a fish at pos with the camera at cam
FleeForce(pos, cam) ==
  IF CloserThan(pos, cam, FleeRadius)
    THEN SetLength(VSub(pos, cam), FleeGain(Length(VSub(pos, cam))))
    ELSE Zero

\* "Limit speed" then "Minimum speed to prevent stopping"
\* if (velocity.length() > maxSpeed) velocity.normalize().multiplyScalar(maxSpeed)
AtMost(vel, maxSpeed) ==
  IF LengthSq(vel) > maxSpeed * maxSpeed THEN SetLength(vel, maxSpeed) ELSE vel

\* if (velocity.length() < minSpeed) velocity.normalize().multiplyScalar(minSpeed)
AtLeast(vel, minSpeed) ==
  IF LengthSq(vel) < minSpeed * minSpeed THEN SetLength(vel, minSpeed) ELSE vel

LimitSpeed(vel, maxSpeed) == AtLeast(AtMost(vel, maxSpeed), Quot(maxSpeed * 3, 10))

\* The velocity with force f added to it, f recorded under the name of its step
AddForce(applied, step, f) ==
  [applied EXCEPT !.velocity = VAdd(@, f), ![step] = f]

\* the velocity and the sampled neighbours before any force is added
Sampled(fish, neighbors) ==
  [ velocity |-> fish.velocity, neighbors |-> neighbors, cohesion |-> Zero,
    separation |-> Zero, alignment |-> Zero, noise |-> Zero, flee |-> Zero ]

\* "Cohesion - move toward center of nearby fish"
Cohesion(fs, fish, applied) ==
  AddForce(applied, "cohesion", CohesionForce(fs, fish.position, applied.neighbors))

\* "Separation - avoid crowding"
Separation(fs, fish, applied) ==
  AddForce(applied, "separation", SeparationForce(fs, fish.position, applied.neighbors))

\* "Alignment - match velocity of neighbors"
Alignment(fs, applied) ==
  AddForce(applied, "alignment", AlignmentForce(fs, applied.velocity, applied.neighbors))

\* "Add some noise for natural movement"
Noise(rnd, applied) == AddForce(applied, "noise", NoiseForce(rnd))

\* (mutant) the flee vector computed in place in the argument, as
\* cameraPosition.sub(fish.position).negate()
FleeInPlace(fish, cameraPosition, applied) ==
  AddForce(applied, "flee", FleeForce(fish.position, cameraPosition))
    @@ [viewer |-> IF CloserThan(fish.position, cameraPosition, FleeRadius)
                     THEN VSub(fish.position, cameraPosition)
                     ELSE cameraPosition]

\* "Avoid camera (flee behavior)": fish.position.distanceTo(cameraPosition) and
\* fish.position.clone().sub(cameraPosition) read the argument and write the
\* clone; viewer is the argument as the block leaves it
Flee(fish, cameraPosition, applied) ==
  AddForce(applied, "flee", FleeForce(fish.position, cameraPosition))
    @@ [viewer |-> cameraPosition]

\* "Limit speed"
Limited(applied) == [applied EXCEPT !.velocity = LimitSpeed(@, Config.speed)]

\* applySwimmingBehavior(fish, index, cameraPosition) on the array fs: the new
\* velocity of the fish, with the neighbours sampled and the forces added.
\* fish.position is not written here, so every step reads fs[index + 1].
ApplySwimmingBehavior(fs, index, cameraPosition, rnd) ==
  Limited(
    Flee(fs[index + 1], cameraPosition,
      Noise(rnd,
        Alignment(fs,
          Separation(fs, fs[index + 1],
            Cohesion(fs, fs[index + 1],
              Sampled(fs[index + 1], GetNeighbors(fs, index, 10))))))))

---------------------------------------------------------------------------
(* FishSchool.update *)

\* Math.sin of an angle in milliradians, times 1000 (Bhaskara's rational
\* approximation on each half period)
SinMilli(a) ==
  LET t == (a % 6283) \div 10
      h == IF t >= 314 THEN t - 314 ELSE t
      p == h * (314 - h)
      s == (16000 * p) \div (492980 - 4 * p)
  IN IF t >= 314 THEN -s ELSE s

\* the horizontal bound of update, in position units
WorldRadius == 250000

\* (mutant) the coordinate sent to the opposite side without the factor 0.9
WrapAroundUndamped(c) == IF Abs(c) > WorldRadius THEN -c ELSE c

\* "Wrap around horizontally": if (Math.abs(c) > 250) c *= -0.9
WrapAround(c) == IF Abs(c) > WorldRadius THEN Quot(c * (-9), 10) ELSE c

\* "Keep within depth bounds": the vertical velocity after the correction of
\* 0.01 for a fish that has moved to height y
DepthCorrected(vy, y) ==
  vy - (IF y > -DepthRange.min THEN 100 ELSE 0) + (IF y < -DepthRange.max THEN 100 ELSE 0)

\* the rotation of the unrotated Object3D
Identity == [look |-> Zero, rotY |-> 0, rotX |-> 0]

\* swimPhase = this.time * fish.swimFrequency + fish.phase, in milliradians
SwimPhase(fish, t) == Quot(t * fish.swimFrequency, 1000) + fish.phase

\* dummy.rotateY(bodyWiggle); dummy.rotateX(tailWiggle * 0.3) after lookAt
Wiggled(velocity, swimPhase) ==
  [ look |-> velocity,
    rotY |-> Quot(SinMilli(swimPhase) * 8, 100),
    rotX |-> Quot(Quot(SinMilli(Quot(swimPhase * 3, 2)) * 12, 100) * 3, 10) ]

\* the rotation of the dummy object when the matrix of the fish is written:
\* set anew only if (fish.velocity.lengthSq() > 0.0001), else left as it was
Rotation(fish, velocity, t, rot) ==
  IF LengthSq(velocity) > 10000 THEN Wiggled(velocity, SwimPhase(fish, t)) ELSE rot

\* the fish and its matrix once position and velocity are settled
Written(fish, applied, moved, position, velocity, t, rot) ==
  [ fish |-> [fish EXCEPT !.position = position, !.velocity = velocity],
    matrix |-> [position |-> position, scale |-> fish.scale,
                rotation |-> Rotation(fish, velocity, t, rot)],
    moved |-> moved,
    trace |-> applied ]

\* (mutant) the body wiggle carried into the velocity of the fish
ContainedWiggling(fish, applied, moved, t, rot) ==
  Written(fish, applied, moved,
          [moved EXCEPT !.x = WrapAround(@), !.z = WrapAround(@)],
          [applied.velocity EXCEPT !.y = DepthCorrected(@, moved.y),
                                   !.x = @ + Quot(SinMilli(SwimPhase(fish, t)), 100)],
          t, rot)

\* the depth correction and the horizontal wrap for a fish that has moved
Contained(fish, applied, moved, t, rot) ==
  Written(fish, applied, moved,
          [moved EXCEPT !.x = WrapAround(@), !.z = WrapAround(@)],
          [applied.velocity EXCEPT !.y = DepthCorrected(@, moved.y)],
          t, rot)

\* (mutant) the body wiggle carried into the position of the fish
MovedWiggling(fish, applied, t, deltaTime, rot) ==
  Contained(fish, applied,
            VAdd(VAdd(fish.position, VScale(applied.velocity, deltaTime, 10000)),
                 Vec(SinMilli(SwimPhase(fish, t)), 0, 0)),
            t, rot)

\* fish.position.add(fish.velocity.clone().multiplyScalar(deltaTime))
Moved(fish, applied, t, deltaTime, rot) ==
  Contained(fish, applied, VAdd(fish.position, VScale(applied.velocity, deltaTime, 10000)),
            t, rot)

\* The state of one fish after its iteration of the loop of update, with the
\* instance matrix written for it.  rot is the rotation the shared dummy
\* object holds when the iteration begins.
StepFish(fs, index, t, deltaTime, cameraPosition, rnd, rot) ==
  Moved(fs[index + 1], ApplySwimmingBehavior(fs, index, cameraPosition, rnd),
        t, deltaTime, rot)

\* the array, the matrices and the traces after the iteration of fish k has
\* given step
Stored(acc, k, step) ==
  [ fishes |-> [acc.fishes EXCEPT ![k + 1] = step.fish],
    matrices |-> [acc.matrices EXCEPT ![k + 1] = step.matrix],
    moved |-> [acc.moved EXCEPT ![k + 1] = step.moved],
    trace |-> [acc.trace EXCEPT ![k + 1] = step.trace],
    dummy |-> step.matrix.rotation,
    viewer |-> step.trace.viewer ]

RECURSIVE UpdateLoopDescending(_, _, _, _, _, _)
\* (mutant) the loop run from the last fish down to the first
UpdateLoopDescending(acc, i, t, deltaTime, cameraPosition, rnds) ==
  IF i >= Len(acc.fishes) THEN acc
  ELSE UpdateLoopDescending(
         Stored(acc, Len(acc.fishes) - 1 - i,
                StepFish(acc.fishes, Len(acc.fishes) - 1 - i, t, deltaTime, acc.viewer,
                         rnds[Len(acc.fishes) - i], acc.dummy)),
         i + 1, t, deltaTime, cameraPosition, rnds)

RECURSIVE UpdateLoopOnSnapshot(_, _, _, _, _, _)
\* (mutant) every fish reading the array as it was when update began
UpdateLoopOnSnapshot(acc, i, t, deltaTime, cameraPosition, rnds) ==
  IF i >= Len(acc.fishes) THEN acc
  ELSE UpdateLoopOnSnapshot(
         Stored(acc, i, StepFish(fishes, i, t, deltaTime, acc.viewer,
                                 rnds[i + 1], acc.dummy)),
         i + 1, t, deltaTime, cameraPosition, rnds)

RECURSIVE UpdateLoop(_, _, _, _, _, _)
\* the for loop of update from fish i on; acc holds the fishes array as
\* mutated so far, the matrices and the traces written so far, and the
\* rotation left in the dummy object; every fish is given the one object
\* cameraPosition, as the fish before it left it (acc.viewer)
UpdateLoop(acc, i, t, deltaTime, cameraPosition, rnds) ==
  IF i >= Len(acc.fishes) THEN acc
  ELSE UpdateLoop(
         Stored(acc, i, StepFish(acc.fishes, i, t, deltaTime, acc.viewer,
                                 rnds[i + 1], acc.dummy)),
         i + 1, t, deltaTime, cameraPosition, rnds)

\* the result of update(deltaTime, cameraPosition) on the array fs at school
\* time t, the noise of fish i drawn as rnds[i + 1]
UpdateResult(fs, t, deltaTime, cameraPosition, rnds) ==
  UpdateLoop([ fishes |-> fs,
               matrices |-> [i \in 1..Len(fs) |-> Identity],
               moved |-> [i \in 1..Len(fs) |-> Zero],
               trace |-> [i \in 1..Len(fs) |-> Zero],
               dummy |-> Identity,
               viewer |-> cameraPosition ],
             0, t + deltaTime, deltaTime, cameraPosition, rnds)

---------------------------------------------------------------------------
(* Inputs *)

\* Values of Math.random() (hundredths) for one fish of initializeFish:
\*   Still   at the top of the depth band, on the school axis, velocity zero
\*   Close   0.2 world units below Still, drifting down
\*   Side    1 % of the school radius beside Still, heading up and outward
\*   Deep    at the bottom of the band, out of the search radius of the others
Still == [depth |-> 0, angle |-> 0, r |-> 0, jx |-> 50, jz |-> 50,
          vx |-> 50, vy |-> 50, vz |-> 50, scale |-> 50, phase |-> 50, freq |-> 50]

Close == [Still EXCEPT !.depth = 1, !.vy = 0, !.vx = 40, !.phase = 0, !.freq = 0]

Side == [Still EXCEPT !.r = 1, !.vx = 99, !.vy = 99, !.scale = 99, !.phase = 25, !.freq = 99]

Deep == [Still EXCEPT !.depth = 99, !.angle = 1, !.r = 10, !.vx = 0, !.vz = 99, !.scale = 0]

\* The schools the model constructs: fish i is drawn as the i-th entry of one
\* of these lists, taken cyclically.  The first is the school whose fish all
\* start at one point with zero velocity.
DrawOrders == {<<Still>>, <<Still, Close, Side, Deep>>, <<Side, Deep, Still, Close>>}

\* the values of the three Math.random() calls of the noise step
\* for the fish of a school: either every call returns 0.5 (no noise at all),
\* or the values differ from fish to fish
NoNoise == [x |-> 50, y |-> 50, z |-> 50]

NoiseRows ==
  { [i \in 1..Len(fishes) |-> NoNoise],
    [i \in 1..Len(fishes) |-> IF i % 2 = 1 THEN [x |-> 99, y |-> 0, z |-> 20]
                                         ELSE [x |-> 0, y |-> 99, z |-> 50]] }

\* deltaTime = Math.min(clock.getDelta(), 0.1), in ms
MaxDeltaTime == 100

DeltaTimes == {0, MaxDeltaTime}

\* Camera positions (Controls keeps y in [-195, 10] and |x|, |z| <= 240):
\* the start position of main.js, the place of the Still fish, and a point
\* 5 world units from it
CameraPositions ==
  { Vec(0, -15000, 80000),
    Vec(0, -DepthRange.min, 0),
    Vec(3000, -DepthRange.min - 4000, 0) }

\* no call of getNeighbors from outside update observed yet
NoCall == [index |-> -1, count |-> 0, fishes |-> <<>>, neighbors |-> <<>>]

NoCalls == [first |-> NoCall, second |-> NoCall]

\* The ticks within which a fish that has left its band is expected back:
\* twice the ticks a correction of 0.01 per tick needs to cancel the full
\* speed of the archetype (60 for krill, 200 for tuna).
ReentryBound == (2 * Config.speed) \div 100

\* the ticks of the longest deltaTime in one period of the surfacing motion of
\* a whale, sin(time * 0.15 + phase)
SurfacingPeriod == (6283 * 100) \div (15 * MaxDeltaTime) + 1

\* the updates the model follows a school through: a school whose sampler is
\* called from outside is followed through one, a school that is saved and
\* restored through two (one before and one after)
TickBudget ==
  CASE scenario = "sampling" -> 1
    [] scenario = "roundtrip" -> 2
    [] scenario = "twins" -> 2
    [] scenario = "loading" -> 2
    [] scenario = "whales" -> SurfacingPeriod
    [] scenario = "manager" -> 2
    [] scenario = "app" -> 2
    [] scenario = "drifting" -> ReentryBound + 1
    [] OTHER -> MaxTicks

\* In a school followed through a long run time advances in every tick, the
\* viewer rests and the values of Math.random() repeat: every tick has the
\* inputs of the first.
Steady(deltaTime, cameraPosition, rnds) ==
  scenario = "drifting" =>
     /\ deltaTime > 0
     /\ ticks > 0 => /\ deltaTime = lastTick.deltaTime
                     /\ cameraPosition = lastTick.cameraPosition
                     /\ rnds = lastTick.rnds

\* whether height y is outside the depth band of the school
OutsideBand(y) == y > -DepthRange.min \/ y < -DepthRange.max

\* the count of ticks outside the band, after a tick that ended at height y
OutsideAfter(n, deltaTime, y) ==
  IF deltaTime = 0 THEN n ELSE IF OutsideBand(y) THEN n + 1 ELSE 0

\* no second school
NoSchool == [fishes |-> <<>>, time |-> 0, matrices |-> <<>>, ticks |-> 0]

\* a school after update(deltaTime, ...) has given result
Ticked(school, deltaTime, result) ==
  [ fishes |-> result.fishes, time |-> school.time + deltaTime,
    matrices |-> result.matrices, ticks |-> school.ticks + 1 ]

NoTick ==
  [deltaTime |-> 0, cameraPosition |-> Zero, rnds |-> <<>>, trace |-> <<>>, moved |-> <<>>,
   viewer |-> Zero]

\* the tables as creatureConfig.js exports them
ImportedTables == [types |-> DOMAIN CREATURE_TYPES, patterns |-> DOMAIN SWIM_PATTERNS]

\* this.mesh = null
NoMesh == [geometry |-> "null", visible |-> FALSE, envMap |-> "null", inScene |-> FALSE]

\* the InstancedMesh of init: the geometry of createGeometry, visible, the
\* material without environment map
ProceduralMesh ==
  [geometry |-> "procedural", visible |-> TRUE, envMap |-> "null", inScene |-> TRUE]

\* (mutant) update also returning at once while the mesh is hidden
HasVisibleMesh(m) == m # NoMesh /\ m.visible

\* the test of this.mesh in update, setVisibility, setEnvironmentMap, tryLoadModel
HasMesh(m) == m # NoMesh

\* whether this.pattern is defined: SWIM_PATTERNS has the key config.swimPattern
PatternDefined == CREATURE_TYPES[creatureType].swimPattern \in tables.patterns

\* no WhaleController
NoController ==
  [whales |-> <<>>, time |-> 0, modelGeometry |-> "null", load |-> "none", envMap |-> "null",
   inScene |-> FALSE]

NoWhaleTick ==
  [deltaTime |-> 0, cameraPosition |-> Zero, rnds |-> <<>>, before |-> <<>>, viewer |-> Zero]

\* camera.position as main.js sets it at the start
StartPosition == Vec(0, -15000, 80000)

\* no WealthOcean constructed: the school, the controller or the manager is
\* driven by direct calls
NoApp == [constructed |-> FALSE]

\* no call given camera.position yet
NoManagerCall == [name |-> "none", cameraPosition |-> Zero, viewDistance |-> 0]

\* the call name(cameraPosition, ...)
ManagerCall(name, cameraPosition, viewDistance) ==
  [name |-> name, cameraPosition |-> cameraPosition, viewDistance |-> viewDistance]

---------------------------------------------------------------------------
(* The school: construction and the update handler *)

\* the matrix initializeFish writes for a fish
InitialMatrix(fish) ==
  [position |-> fish.position, scale |-> fish.scale,
   rotation |-> [look |-> fish.velocity, rotY |-> 0, rotX |-> 0]]

\* what the constructor and init leave in the fields that initializeFish
\* does not fill; the model load is under way
Initialized ==
  /\ time = 0
  /\ mesh = ProceduralMesh
  /\ modelLoaded = FALSE
  /\ load = "pending"
  /\ thrown = "none"

\* the constructor left at this.config.swimPattern with a TypeError, config
\* being undefined: no school, nothing loading
ConstructorThrew ==
  /\ fishes = <<>>
  /\ time = 0
  /\ mesh = NoMesh
  /\ modelLoaded = FALSE
  /\ load = "none"
  /\ thrown = "constructor"

\* the history of a school no method of which has been called yet, alone in
\* its scene
Uncalled(kind) ==
  /\ matrices = [i \in 1..Len(fishes) |-> InitialMatrix(fishes[i])]
  /\ lastTick = NoTick
  /\ ticks = 0
  /\ startFishes = fishes
  /\ scenario = kind
  /\ calls = NoCalls
  /\ restored = NoSchool
  /\ outsideFor = [i \in 1..Len(fishes) |-> 0]
  /\ whaleController = NoController
  /\ lastWhaleTick = NoWhaleTick
  /\ viewer = StartPosition
  /\ lastCall = NoManagerCall
  /\ app = NoApp

\* new FishSchool(scene, creatureType, bracket) with creatureType one of types
\* and the tables one of tbs: n fish, the Math.random values of its fish
\* taken from one of orders
NewFishSchool(n, orders, kind, tbs, types) ==
  /\ tables \in tbs
  /\ creatureType \in types
  /\ IF creatureType \in tables.types
       THEN /\ \E order \in orders :
                 fishes = [i \in 1..n |->
                             NewFish(CREATURE_TYPES[creatureType], BracketDepth[creatureType],
                                     order[((i - 1) % Len(order)) + 1])]
            /\ Initialized
       ELSE ConstructorThrew
  /\ Uncalled(kind)

\* the same with the tables as imported and an archetype they hold
Constructed(n, orders, kind) ==
  NewFishSchool(n, orders, kind, {ImportedTables}, Archetypes)

InitializeFish == Constructed(NumFish, DrawOrders, "constructed")

\* the history of a call update(deltaTime, cameraPosition) that left before
\* its loop ended: no fish moved, no matrix written, the argument untouched
Interrupted(deltaTime, cameraPosition, rnds) ==
  /\ lastTick' = [deltaTime |-> deltaTime, cameraPosition |-> cameraPosition,
                  rnds |-> rnds, trace |-> <<>>, moved |-> <<>>,
                  viewer |-> cameraPosition]
  /\ startFishes' = fishes
  /\ ticks' = ticks + 1
  /\ UNCHANGED <<fishes, matrices, restored, outsideFor>>

\* if (!this.mesh) return
UpdateReturns(deltaTime, cameraPosition, rnds) ==
  /\ Interrupted(deltaTime, cameraPosition, rnds)
  /\ UNCHANGED <<time, thrown>>

\* this.pattern is undefined: this.time += deltaTime, then for the first fish
\* applySwimmingBehavior reads pattern.cohesion (or, with no neighbour,
\* pattern.noise) before it writes anything, and the TypeError leaves update
UpdateThrows(deltaTime, cameraPosition, rnds) ==
  /\ Interrupted(deltaTime, cameraPosition, rnds)
  /\ time' = time + deltaTime
  /\ thrown' = "update"

\* the whole of update
UpdateRuns(deltaTime, cameraPosition, rnds) ==
  \E result \in {UpdateResult(fishes, time, deltaTime, cameraPosition, rnds)} :
     /\ outsideFor' = [i \in 1..Len(fishes) |->
                         OutsideAfter(outsideFor[i], deltaTime,
                                      result.fishes[i].position.y)]
     /\ time' = time + deltaTime
     /\ fishes' = result.fishes
     /\ matrices' = result.matrices
     /\ lastTick' = [deltaTime |-> deltaTime, cameraPosition |-> cameraPosition,
                     rnds |-> rnds, trace |-> result.trace, moved |-> result.moved,
                     viewer |-> result.viewer]
     /\ startFishes' = fishes
     /\ ticks' = ticks + 1
     /\ restored' = IF restored = NoSchool
                       THEN restored
                       ELSE Ticked(restored, deltaTime,
                                   UpdateResult(restored.fishes, restored.time,
                                                deltaTime, cameraPosition, rnds))
     /\ thrown' = "none"

\* school.update(deltaTime, cameraPosition); lastTick.viewer is the argument
\* as the call left it
SchoolUpdate(deltaTime, cameraPosition, rnds) ==
  IF ~HasMesh(mesh) THEN UpdateReturns(deltaTime, cameraPosition, rnds)
  ELSE IF ~PatternDefined THEN UpdateThrows(deltaTime, cameraPosition, rnds)
  ELSE UpdateRuns(deltaTime, cameraPosition, rnds)

\* update(deltaTime, cameraPosition), called on a school whose constructor
\* returned
Update ==
  /\ ticks < TickBudget
  /\ thrown # "constructor"
  /\ \E deltaTime \in DeltaTimes, cameraPosition \in CameraPositions,
        rnds \in NoiseRows :
       /\ Steady(deltaTime, cameraPosition, rnds)
       /\ lastCall' = ManagerCall("FishSchool.update", cameraPosition, 0)
       /\ SchoolUpdate(deltaTime, cameraPosition, rnds)
       /\ viewer' = lastTick'.viewer
  /\ UNCHANGED <<creatureType, scenario, calls, tables, mesh, modelLoaded, load,
                 whaleController, lastWhaleTick, app>>

Init == InitializeFish

Next == Update

Spec == Init /\ [][Next]_vars

---------------------------------------------------------------------------
(* Schools late in a run: fish that have swum out to the horizontal bound *)

\* half of the way a fish covers at full speed in the longest tick
HalfStep(cfg) == Quot(cfg.speed * MaxDeltaTime, 20000)

\* Places at the bound: sx, sz name the wall the fish heads for at full speed,
\* gap its distance from the wall in half steps
\*   CrossX   half a step inside the wall x = 250: the next full tick crosses it
\*   CrossZ   the same at the wall z = -250
\*   Touch    one step inside the wall x = -250: a full tick lands on the wall
\*   OnWall   on the wall z = 250, heading out
CrossX == [sx |-> 1, sz |-> 0, gap |-> 1]

CrossZ == [sx |-> 0, sz |-> -1, gap |-> 1]

Touch == [sx |-> -1, sz |-> 0, gap |-> 2]

OnWall == [sx |-> 0, sz |-> 1, gap |-> 0]

EdgeOrders == {<<CrossX, CrossZ, Touch, OnWall>>, <<OnWall, Touch, CrossZ, CrossX>>}

\* a fish at such a place, at mid depth of its band
EdgeFish(cfg, depthRange, place) ==
  [ position |-> Vec(place.sx * (WorldRadius - place.gap * HalfStep(cfg)),
                     -((depthRange.min + depthRange.max) \div 2),
                     place.sz * (WorldRadius - place.gap * HalfStep(cfg))),
    velocity |-> Vec(place.sx * cfg.speed, 0, place.sz * cfg.speed),
    scale |-> cfg.baseSize,
    phase |-> 0,
    swimFrequency |-> 8000 ]

\* a school some of whose fish have reached the bound
AtTheEdge ==
  /\ creatureType \in Archetypes
  /\ \E order \in EdgeOrders :
       fishes = [i \in 1..NumFish |->
                   EdgeFish(CREATURE_TYPES[creatureType], BracketDepth[creatureType],
                            order[((i - 1) % Len(order)) + 1])]
  /\ tables = ImportedTables
  /\ Initialized
  /\ Uncalled("edge")

SpecEdge == AtTheEdge /\ [][Next]_vars

---------------------------------------------------------------------------
(* A school followed through a long run *)

\* Further values of Math.random() for a fish of initializeFish:
\*   Riser   at the top of the depth band, on the school axis, heading straight up
Riser == [Still EXCEPT !.vy = 99]

DriftOrders == {<<Riser>>, <<Riser, Still, Close>>}

DriftingSchool == Constructed(NumFish, DriftOrders, "drifting")

SpecDrifting == DriftingSchool /\ [][Next]_vars

---------------------------------------------------------------------------
(* A school whose fish are placed with the offset of initializeFish *)

\* Further values of Math.random() for a fish of initializeFish:
\*   Scattered  at mid depth, at the rim of the school radius along +x, its
\*              offset (Math.random() - 0.5) * 200 at +98 along x, -100 along
\*              z, the smallest scale
\*   Offset     on the school axis, its offset at +98 along x and z, the
\*              largest scale, at the bottom of the band
Scattered == [Still EXCEPT !.depth = 50, !.r = 99, !.jx = 99, !.jz = 0, !.scale = 0]

Offset == [Still EXCEPT !.depth = 99, !.jx = 99, !.jz = 99, !.scale = 99]

PlacementOrders == {<<Still, Scattered, Offset>>, <<Offset, Still>>, <<Scattered>>}

PlacedSchoolAtLarge == Constructed(NumFish, PlacementOrders, "placement")

SpecPlacement == PlacedSchoolAtLarge /\ [][Next]_vars

---------------------------------------------------------------------------
(* A school restored from saved fish *)

\* a fish of a newly constructed school given the saved position, velocity,
\* scale and phase of another; its swimFrequency stays as initializeFish drew it
RestoredFish(fresh, saved) ==
  [fresh EXCEPT !.position = saved.position, !.velocity = saved.velocity,
                !.scale = saved.scale, !.phase = saved.phase]

\* new FishSchool(scene, creatureType, bracket) with the Math.random values
\* of order, then every fish given the saved fields of the fish of fs
RestoredSchool(fs, order) ==
  [ fishes |-> [i \in 1..Len(fs) |->
                  RestoredFish(NewFish(Config, DepthRange, order[((i - 1) % Len(order)) + 1]),
                               fs[i])],
    time |-> 0,
    matrices |-> [i \in 1..Len(fs) |-> InitialMatrix(fs[i])],
    ticks |-> 0 ]

\* the fish of the school are saved and restored into a second school
SaveAndRestore ==
  /\ restored = NoSchool
  /\ \E order \in DrawOrders : restored' = RestoredSchool(fishes, order)
  /\ UNCHANGED <<creatureType, fishes, time, matrices, lastTick, ticks, startFishes,
                 scenario, calls, outsideFor, tables, thrown, mesh, modelLoaded, load,
                 whaleController, lastWhaleTick, viewer, lastCall, app>>

NextRoundTrip == Update \/ SaveAndRestore

\* a school as constructed, to be saved and restored
SchoolToSave == Constructed(NumFish, DrawOrders, "roundtrip")

SpecRoundTrip == SchoolToSave /\ [][NextRoundTrip]_vars

---------------------------------------------------------------------------
(* Two schools that differ in the wiggle inputs only *)

\* a fish of a newly constructed school given the position, velocity and
\* scale of another; phase and swimFrequency stay as initializeFish drew them
PlacedFish(fresh, other) ==
  [fresh EXCEPT !.position = other.position, !.velocity = other.velocity,
                !.scale = other.scale]

\* new FishSchool(scene, creatureType, bracket) with the Math.random values
\* of order, then every fish placed as the fish of fs
PlacedSchool(fs, order) ==
  [ fishes |-> [i \in 1..Len(fs) |->
                  PlacedFish(NewFish(Config, DepthRange, order[((i - 1) % Len(order)) + 1]),
                             fs[i])],
    time |-> 0,
    matrices |-> [i \in 1..Len(fs) |-> InitialMatrix(fs[i])],
    ticks |-> 0 ]

\* a second school is constructed and its fish placed as the fish of the first
PlaceTwin ==
  /\ restored = NoSchool
  /\ \E order \in DrawOrders : restored' = PlacedSchool(fishes, order)
  /\ UNCHANGED <<creatureType, fishes, time, matrices, lastTick, ticks, startFishes,
                 scenario, calls, outsideFor, tables, thrown, mesh, modelLoaded, load,
                 whaleController, lastWhaleTick, viewer, lastCall, app>>

NextTwins == Update \/ PlaceTwin

\* a school as constructed, to be given a twin
SchoolToTwin == Constructed(NumFish, DrawOrders, "twins")

SpecTwins == SchoolToTwin /\ [][NextTwins]_vars

---------------------------------------------------------------------------
(* Calls of getNeighbors from outside update *)

\* the sample counts of the calls: update asks for 10, a caller may ask for fewer
SampleCounts == {2, 10}

\* Further values of Math.random() for a fish of initializeFish:
\*   Rim     60 % down the band: for krill exactly 0.3 * schoolRadius below Still
Rim == [Still EXCEPT !.depth = 60, !.vz = 60]

SampledOrders == {<<Still, Rim, Close, Deep, Side>>, <<Deep, Still, Side, Rim, Close>>}

\* a school of NumSampled fish, as constructed
SampledSchool == Constructed(NumSampled, SampledOrders, "sampling")

\* the record of one call getNeighbors(fishes[index], index, count)
CallOf(fs, index, count) ==
  [index |-> index, count |-> count, fishes |-> fs, neighbors |-> GetNeighbors(fs, index, count)]

\* getNeighbors(this.fishes[index], index, count), the first two calls recorded
GetNeighborsCall ==
  /\ calls.second = NoCall
  /\ \E index \in 0..(Len(fishes) - 1), count \in SampleCounts :
       calls' = IF calls.first = NoCall
                  THEN [calls EXCEPT !.first = CallOf(fishes, index, count)]
                  ELSE [calls EXCEPT !.second = CallOf(fishes, index, count)]
  /\ UNCHANGED <<creatureType, fishes, time, matrices, lastTick, ticks, startFishes,
                 scenario, restored, outsideFor, tables, thrown, mesh, modelLoaded, load,
                 whaleController, lastWhaleTick, viewer, lastCall, app>>

NextSampling == Update \/ GetNeighborsCall

SpecSampling == SampledSchool /\ [][NextSampling]_vars

---------------------------------------------------------------------------
(* The model load of a school *)

\* (mutant) modelLoaded set before the promise is awaited
TryLoadModelEager(m, loaded, outcome) ==
  [ mesh |-> IF outcome = "resolved" /\ HasMesh(m) THEN [m EXCEPT !.geometry = "model"] ELSE m,
    modelLoaded |-> TRUE ]

\* tryLoadModel from the await on: a resolved promise carries a geometry,
\* which replaces the one of the mesh; a rejected one is caught and dropped
TryLoadModel(m, loaded, outcome) ==
  IF outcome = "resolved" /\ HasMesh(m)
    THEN [mesh |-> [m EXCEPT !.geometry = "model"], modelLoaded |-> TRUE]
    ELSE [mesh |-> m, modelLoaded |-> loaded]

\* the promise of loadModel settles and tryLoadModel runs on
ModelLoadSettles ==
  /\ load = "pending"
  /\ \E outcome \in {"resolved", "rejected"} :
       /\ load' = outcome
       /\ mesh' = TryLoadModel(mesh, modelLoaded, outcome).mesh
       /\ modelLoaded' = TryLoadModel(mesh, modelLoaded, outcome).modelLoaded
  /\ UNCHANGED <<creatureType, fishes, time, matrices, lastTick, ticks, startFishes,
                 scenario, calls, restored, outsideFor, tables, thrown, whaleController,
                 lastWhaleTick, viewer, lastCall, app>>

NextLoading == Update \/ ModelLoadSettles

\* a school as constructed, its model load under way
LoadingSchool == Constructed(NumFish, DrawOrders, "loading")

SpecLoading == LoadingSchool /\ [][NextLoading]_vars

---------------------------------------------------------------------------
(* WhaleController: construction *)

\* NOTABLE_BILLIONAIRES[..].wealth, in units of 10^9
NOTABLE_BILLIONAIRES == <<250, 200, 190, 170, 150, 130, 120, 110, 105, 100>>

\* Math.cos of an angle in milliradians, times 1000
CosMilli(a) == SinMilli(a + 1571)

\* Math.atan of t / 1000 for |t| <= 1000, in milliradians
AtanUnit(t) == Quot(t * (785 + Quot(273 * (1000 - Abs(t)), 1000)), 1000)

\* Math.atan2(y, x) in milliradians
Atan2Milli(y, x) ==
  IF x = 0 /\ y = 0 THEN 0
  ELSE IF Abs(y) <= Abs(x)
    THEN IF x > 0 THEN AtanUnit(Quot(y * 1000, x))
         ELSE (IF y >= 0 THEN 3142 ELSE -3142) + AtanUnit(Quot(y * 1000, x))
    ELSE (IF y > 0 THEN 1571 ELSE -1571) - AtanUnit(Quot(x * 1000, y))

\* a.distanceTo(b) for points far apart: the difference is scaled down until
\* its squares fit the integer range (by k <= 26, a resolution of k / 1000)
ScaledLength(d, k) == Length(VDiv(d, k)) * k

DistanceTo(a, b) == ScaledLength(VSub(a, b), MaxAbs(VSub(a, b)) \div 20000 + 1)

\* NOTABLE_BILLIONAIRES.slice(0, 10).length
WhaleCount == Min2(10, Len(NOTABLE_BILLIONAIRES))

\* size = config.baseSize * (0.5 + wealthRatio * 0.5), in position units
WhaleSize(index) ==
  Quot(CREATURE_TYPES.whale.baseSize
         * (1000 + Quot(NOTABLE_BILLIONAIRES[index + 1] * 1000, NOTABLE_BILLIONAIRES[1])),
       2000)

\* angle = (index / NOTABLE_BILLIONAIRES.length) * Math.PI * 2, in milliradians
WhaleAngle(index) == Quot(index * 6283, Len(NOTABLE_BILLIONAIRES))

\* radius = 50 + index * 20
WhaleRadius(index) == 50000 + index * 20000

\* mesh.position of a new whale, rnd.y the Math.random value of its height
WhalePosition(index, rnd) ==
  Vec(Quot(CosMilli(WhaleAngle(index)) * WhaleRadius(index), 1000),
      -5000 - rnd.y * 50,
      Quot(SinMilli(WhaleAngle(index)) * WhaleRadius(index), 1000))

\* the sprite of createLabel, placed by createWhale
NewLabel(position, size) ==
  [visible |-> FALSE, opacity |-> 1000, position |-> VAdd(position, Vec(0, size * 2, 0))]

\* createWhale(billionaire, index, config), rnd the values of Math.random()
\* in hundredths
CreateWhale(index, rnd) ==
  [ position |-> WhalePosition(index, rnd),
    scale |-> WhaleSize(index),
    rotation |-> Zero,
    geometry |-> "procedural",
    label |-> NewLabel(WhalePosition(index, rnd), WhaleSize(index)),
    size |-> WhaleSize(index),
    velocity |-> Vec((rnd.vx - 50) * 30, 0, (rnd.vz - 50) * 30),
    phase |-> Quot(rnd.phase * 6283, 100),
    swimCycle |-> 0,
    tailPhase |-> Quot(rnd.tail * 6283, 100),
    breathingPhase |-> Quot(rnd.breath * 6283, 100) ]

\* Values of Math.random() (hundredths) for one whale of createWhale:
\*   Resting   at rest, at the top of its surfacing motion
\*   Eastward  drifting toward +x and -z at full speed
\*   Westward  drifting toward -x and +z, slowly along x
Resting == [y |-> 0, vx |-> 50, vz |-> 50, phase |-> 25, tail |-> 0, breath |-> 0]

Eastward == [y |-> 99, vx |-> 99, vz |-> 0, phase |-> 75, tail |-> 50, breath |-> 25]

Westward == [y |-> 50, vx |-> 40, vz |-> 99, phase |-> 0, tail |-> 25, breath |-> 75]

\* the controllers the model constructs: whale i is drawn as the i-th entry of
\* one of these lists, taken cyclically
WhaleOrders == {<<Resting>>, <<Eastward, Westward, Resting>>, <<Westward, Resting, Eastward>>}

\* new WhaleController(scene, envMap): the whales of init, the model load started
NewWhaleController(order) ==
  [ whales |-> [i \in 1..WhaleCount |-> CreateWhale(i - 1, order[((i - 1) % Len(order)) + 1])],
    time |-> 0,
    modelGeometry |-> "null",
    load |-> "pending",
    envMap |-> "null",
    inScene |-> TRUE ]

---------------------------------------------------------------------------
(* WhaleController.update *)

\* swimCycle += deltaTime * 0.5
Cycled(w, deltaTime) == [w EXCEPT !.swimCycle = @ + deltaTime \div 2]

\* body undulation, tail motion and breathing, at controller time t
Animated(w, t) ==
  [w EXCEPT !.rotation.z = Quot(SinMilli(w.swimCycle + w.phase) * 16, 1000),
            !.rotation.x = Quot(SinMilli(Quot(w.swimCycle * 3, 2) + w.tailPhase) * 75, 10000),
            !.scale = w.size + Quot(w.size * SinMilli(Quot(t * 3, 10) + w.breathingPhase) * 2,
                                    100000)]

\* mesh.position.add(velocity.clone().multiplyScalar(deltaTime))
Drifted(w, deltaTime) ==
  [w EXCEPT !.position = VAdd(@, VScale(w.velocity, deltaTime, 10000))]

\* surfaceMotion = Math.sin(this.time * 0.15 + whale.phase) * 3
SurfaceMotion(t, phase) == 3 * SinMilli(Quot(t * 15, 100) + phase)

\* (mutant) the surfacing motion added to the height the whale has
SurfacedFromWhereItIs(w, t) ==
  [w EXCEPT !.position.y = @ + SurfaceMotion(t, w.phase)]

\* mesh.position.y = -5 + surfaceMotion
Surfaced(w, t) == [w EXCEPT !.position.y = -5000 + SurfaceMotion(t, w.phase)]

\* the horizontal bound of the whales, in position units
WhaleBound == 150000

\* "Keep in bounds with smooth turning": the velocity component v of a whale
\* at coordinate c, rnd the value of the Math.random() call made when out
Turned(v, c, rnd) ==
  IF Abs(c) > WhaleBound THEN Quot(v * (-5), 10) + (rnd - 50) * 10 ELSE v

Bounced(w, rnd) ==
  [w EXCEPT !.velocity.x = Turned(@, w.position.x, rnd.x),
            !.velocity.z = Turned(@, w.position.z, rnd.z)]

\* "Face direction of movement with smooth interpolation"
Faced(w, deltaTime) ==
  IF LengthSq(w.velocity) > 100000
    THEN [w EXCEPT !.rotation.y =
                      @ + Quot((Atan2Milli(w.velocity.x, w.velocity.z) - @) * deltaTime * 15,
                               10000)]
    ELSE w

\* the distance below which a label shows, in position units
LabelRange == 100000

\* (mutant) the label shown within 80 and faded over the whole range
LabelAtWithin80(label, position, size, dist) ==
  [ position |-> VAdd(position, Vec(0, Quot(size * 18, 10), 0)),
    visible |-> dist < 80000,
    opacity |-> Max2(0, 1000 - Quot(dist, 80)) ]

\* the label of a whale at position, dist from the camera: opacity is
\* written only while the label shows
LabelAt(label, position, size, dist) ==
  [ position |-> VAdd(position, Vec(0, Quot(size * 18, 10), 0)),
    visible |-> dist < LabelRange,
    opacity |-> IF dist < LabelRange
                  THEN Max2(0, 1000 - Quot(dist - 30000, 70))
                  ELSE label.opacity ]

\* "Update label position and visibility"
Labelled(w, cameraPosition) ==
  [w EXCEPT !.label = LabelAt(@, w.position, w.size, DistanceTo(w.position, cameraPosition))]

\* one whale after its turn in the forEach of update, at controller time t
UpdatedWhale(w, t, deltaTime, cameraPosition, rnd) ==
  Labelled(
    Faced(
      Bounced(
        Surfaced(
          Drifted(
            Animated(Cycled(w, deltaTime), t),
            deltaTime),
          t),
        rnd),
      deltaTime),
    cameraPosition)

\* the controller after update(deltaTime, cameraPosition); rnds[i] holds the
\* Math.random values of whale i
UpdatedController(c, deltaTime, cameraPosition, rnds) ==
  [c EXCEPT !.time = @ + deltaTime,
            !.whales = [i \in 1..Len(c.whales) |->
                          UpdatedWhale(c.whales[i], c.time + deltaTime, deltaTime,
                                       cameraPosition, rnds[i])]]

\* Camera positions around the whales: the start position of main.js (95
\* from the first whale), a point 7 from the first whale, and the sea floor
WhaleCameraPositions ==
  {StartPosition, Vec(45000, -6000, 5000), Vec(0, -190000, 0)}

\* the values of the Math.random() calls of the turning step for the whales:
\* every call returns 0.5 (no perturbation), every call 0.99, or 0 and 0.99
\* in turn
WhaleNoiseRows ==
  { [i \in 1..WhaleCount |-> [x |-> 50, z |-> 50]],
    [i \in 1..WhaleCount |-> [x |-> 99, z |-> 99]],
    [i \in 1..WhaleCount |-> IF i % 2 = 1 THEN [x |-> 0, z |-> 99] ELSE [x |-> 99, z |-> 0]] }

\* In a run of the whales alone time advances in every tick, the viewer
\* rests and the values of Math.random() repeat.
SteadyWhales(deltaTime, cameraPosition, rnds) ==
  scenario = "whales" =>
     /\ deltaTime > 0
     /\ ticks > 0 => /\ deltaTime = lastWhaleTick.deltaTime
                     /\ cameraPosition = lastWhaleTick.cameraPosition
                     /\ rnds = lastWhaleTick.rnds

\* whaleController.update(deltaTime, cameraPosition): distanceTo reads its
\* argument; lastWhaleTick.viewer is the argument as the call left it
WhalesUpdated(deltaTime, cameraPosition, rnds) ==
  /\ whaleController' = UpdatedController(whaleController, deltaTime, cameraPosition, rnds)
  /\ lastWhaleTick' = [deltaTime |-> deltaTime, cameraPosition |-> cameraPosition,
                       rnds |-> rnds, before |-> whaleController.whales,
                       viewer |-> cameraPosition]

\* update(deltaTime, cameraPosition) of the WhaleController
WhaleUpdate ==
  /\ ticks < TickBudget
  /\ whaleController # NoController
  /\ \E deltaTime \in DeltaTimes, cameraPosition \in WhaleCameraPositions,
        rnds \in WhaleNoiseRows :
       /\ SteadyWhales(deltaTime, cameraPosition, rnds)
       /\ lastCall' = ManagerCall("WhaleController.update", cameraPosition, 0)
       /\ WhalesUpdated(deltaTime, cameraPosition, rnds)
       /\ viewer' = lastWhaleTick'.viewer
  /\ ticks' = ticks + 1
  /\ UNCHANGED <<creatureType, fishes, time, matrices, lastTick, startFishes, scenario,
                 calls, restored, outsideFor, tables, thrown, mesh, modelLoaded, load, app>>

\* the bracket whose creature is the whale is given no FishSchool
NoFishSchool ==
  /\ tables = ImportedTables
  /\ creatureType = "whale"
  /\ fishes = <<>>
  /\ time = 0
  /\ mesh = NoMesh
  /\ modelLoaded = FALSE
  /\ load = "none"
  /\ thrown = "none"

\* a WhaleController as constructed, no method of it called yet
WhalesAlone ==
  /\ NoFishSchool
  /\ matrices = <<>>
  /\ lastTick = NoTick
  /\ ticks = 0
  /\ startFishes = <<>>
  /\ scenario = "whales"
  /\ calls = NoCalls
  /\ restored = NoSchool
  /\ outsideFor = <<>>
  /\ \E order \in WhaleOrders : whaleController = NewWhaleController(order)
  /\ lastWhaleTick = NoWhaleTick
  /\ viewer = StartPosition
  /\ lastCall = NoManagerCall
  /\ app = NoApp

NextWhales == WhaleUpdate

SpecWhales == WhalesAlone /\ [][NextWhales]_vars

---------------------------------------------------------------------------
(* Construction from tables that lack a key *)

\* the tables a school is constructed from: as imported, or with
\* SWIM_PATTERNS lacking the pattern of the krill
ConfigTables == {ImportedTables, [ImportedTables EXCEPT !.patterns = @ \ {"swarm"}]}

\* the creature types asked for: the archetypes, and one that no table holds
RequestedTypes == Archetypes \cup {"squid"}

Configured == NewFishSchool(NumFish, DrawOrders, "configured", ConfigTables, RequestedTypes)

SpecConfigured == Configured /\ [][Next]_vars

---------------------------------------------------------------------------
(* CreatureManager: one school and the WhaleController *)

\* the schools and the controller the model constructs a manager with: the
\* fish drawn in the order Still, Close, Side, Deep, the whales Eastward,
\* Westward, Resting
ManagerDrawOrders == {<<Still, Close, Side, Deep>>}

ManagerWhaleOrders == {<<Eastward, Westward, Resting>>}

\* new CreatureManager(scene): init constructs a FishSchool for the bracket
\* of creatureType and the WhaleController for the bracket of the whales
ManagerConstructed(kind, a) ==
  /\ tables = ImportedTables
  /\ creatureType \in Archetypes
  /\ \E order \in ManagerDrawOrders :
        fishes = [i \in 1..NumFish |->
                    NewFish(CREATURE_TYPES[creatureType], BracketDepth[creatureType],
                            order[((i - 1) % Len(order)) + 1])]
  /\ Initialized
  /\ matrices = [i \in 1..Len(fishes) |-> InitialMatrix(fishes[i])]
  /\ lastTick = NoTick
  /\ ticks = 0
  /\ startFishes = fishes
  /\ scenario = kind
  /\ calls = NoCalls
  /\ restored = NoSchool
  /\ outsideFor = [i \in 1..Len(fishes) |-> 0]
  /\ \E order \in ManagerWhaleOrders : whaleController = NewWhaleController(order)
  /\ lastWhaleTick = NoWhaleTick
  /\ viewer = StartPosition
  /\ lastCall = NoManagerCall
  /\ app = a

\* a CreatureManager constructed and driven by direct calls
NewCreatureManager == ManagerConstructed("manager", NoApp)

\* the camera positions the manager is called with: the start position of
\* main.js (30 from the third whale) and a point 5 from the Still fish
ManagerCameraPositions == {StartPosition, Vec(3000, -DepthRange.min - 4000, 0)}

\* the values of Math.random() in the turning step of the whales
ManagerWhaleNoise ==
  { [i \in 1..WhaleCount |-> IF i % 2 = 1 THEN [x |-> 0, z |-> 99] ELSE [x |-> 99, z |-> 0]] }

\* the view distances of updateVisibility: the default, and one that leaves
\* the deep schools hidden from the start position
ViewDistances == {200000, 50000}

\* the environment maps of setEnvironmentMap
EnvMaps == {"null", "sky"}

\* CreatureManager.update(deltaTime, cameraPosition): the school first, then
\* the whales, both given the same Vector3
ManagerUpdate ==
  /\ ticks < TickBudget
  /\ \E deltaTime \in {MaxDeltaTime}, cameraPosition \in ManagerCameraPositions,
        rnds \in NoiseRows, whaleRnds \in ManagerWhaleNoise :
       /\ lastCall' = ManagerCall("CreatureManager.update", cameraPosition, 0)
       /\ SchoolUpdate(deltaTime, cameraPosition, rnds)
       /\ IF thrown' = "none"
            THEN /\ WhalesUpdated(deltaTime, lastTick'.viewer, whaleRnds)
                 /\ viewer' = lastWhaleTick'.viewer
            ELSE /\ UNCHANGED <<whaleController, lastWhaleTick>>
                 /\ viewer' = lastTick'.viewer
  /\ UNCHANGED <<creatureType, scenario, calls, tables, mesh, modelLoaded, load, app>>

\* FishSchool.setVisibility(visible)
SetVisibility(m, visible) ==
  IF HasMesh(m) THEN [m EXCEPT !.visible = visible] ELSE m

\* the middle of the depth band of the bracket of the school
BracketCenter == (DepthRange.min + DepthRange.max) \div 2

\* the test of updateVisibility: distance < viewDistance
WithinView(cameraPosition, viewDistance) ==
  Abs(Abs(cameraPosition.y) - BracketCenter) < viewDistance

\* CreatureManager.updateVisibility(cameraPosition, viewDistance)
UpdateVisibility ==
  /\ \E cameraPosition \in ManagerCameraPositions, viewDistance \in ViewDistances :
       /\ lastCall' = ManagerCall("updateVisibility", cameraPosition, viewDistance)
       /\ mesh' = SetVisibility(mesh, WithinView(cameraPosition, viewDistance))
       /\ viewer' = cameraPosition
  /\ UNCHANGED <<creatureType, fishes, time, matrices, lastTick, ticks, startFishes,
                 scenario, calls, restored, outsideFor, tables, thrown, modelLoaded, load,
                 whaleController, lastWhaleTick, app>>

\* CreatureManager.getCreaturesNearCamera(cameraPosition): reads the
\* brackets and the whale positions, writes nothing
GetCreaturesNearCamera ==
  /\ \E cameraPosition \in ManagerCameraPositions :
       /\ lastCall' = ManagerCall("getCreaturesNearCamera", cameraPosition, 0)
       /\ viewer' = cameraPosition
  /\ UNCHANGED <<creatureType, fishes, time, matrices, lastTick, ticks, startFishes,
                 scenario, calls, restored, outsideFor, tables, thrown, mesh, modelLoaded,
                 load, whaleController, lastWhaleTick, app>>

\* FishSchool.setEnvironmentMap(envMap), on the material of the mesh
SchoolEnvironmentMap(m, envMap) ==
  IF HasMesh(m) THEN [m EXCEPT !.envMap = envMap] ELSE m

\* CreatureManager.setEnvironmentMap(envMap)
SetEnvironmentMap ==
  /\ \E envMap \in EnvMaps :
       /\ mesh' = SchoolEnvironmentMap(mesh, envMap)
       /\ whaleController' = [whaleController EXCEPT !.envMap = envMap]
  /\ UNCHANGED <<creatureType, fishes, time, matrices, lastTick, ticks, startFishes,
                 scenario, calls, restored, outsideFor, tables, thrown, modelLoaded, load,
                 lastWhaleTick, viewer, lastCall, app>>

\* the forEach of getStats over this.schools from entry k on: totalCreatures
\* grows by fishes.length and details by one entry per school
RECURSIVE StatsLoop(_, _, _)
StatsLoop(schools, k, stats) ==
  IF k > Len(schools) THEN stats
  ELSE StatsLoop(schools, k + 1,
                 [totalCreatures |-> stats.totalCreatures + schools[k].length,
                  details |-> Append(stats.details,
                                     [bracket |-> schools[k].bracket,
                                      count |-> schools[k].length])])

\* (mutant) getStats leaving the whales out of the total
GetStatsOfSchools(schools, whales) ==
  [totalCreatures |-> StatsLoop(schools, 1, [totalCreatures |-> 0, details |-> <<>>]).totalCreatures,
   details |-> Append(StatsLoop(schools, 1, [totalCreatures |-> 0, details |-> <<>>]).details,
                      [bracket |-> "Billionaires", count |-> whales])]

\* CreatureManager.getStats of a manager whose schools (bracket id and
\* fishes.length, in Map order) and whaleController.whales.length are given
GetStatsOf(schools, whales) ==
  [totalCreatures |-> StatsLoop(schools, 1, [totalCreatures |-> 0, details |-> <<>>]).totalCreatures
                        + whales,
   details |-> Append(StatsLoop(schools, 1, [totalCreatures |-> 0, details |-> <<>>]).details,
                      [bracket |-> "Billionaires", count |-> whales])]

\* the bracket a school was constructed for
BracketOf(creature) ==
  WEALTH_BRACKETS[CHOOSE k \in 1..Len(WEALTH_BRACKETS) : WEALTH_BRACKETS[k].creature = creature]

\* getStats() of the manager of the model
GetStats ==
  GetStatsOf(<<[bracket |-> BracketOf(creatureType).id, length |-> Len(fishes)]>>,
             Len(whaleController.whales))

\* this.schools after init with the shipped tables: one school per bracket
\* other than the whales', of config.schoolSize fish
ShippedSchools ==
  [k \in 1..(Len(WEALTH_BRACKETS) - 1) |->
     [bracket |-> WEALTH_BRACKETS[k].id,
      length |-> CREATURE_TYPES[WEALTH_BRACKETS[k].creature].schoolSize]]

\* getStats() of the manager constructed from the shipped tables
ShippedStats == GetStatsOf(ShippedSchools, WhaleCount)

\* (mutant) a loaded model giving rise to a second set of whales
TryLoadWhaleModelAgain(c, outcome) ==
  IF outcome = "resolved"
    THEN [c EXCEPT !.load = outcome, !.modelGeometry = "model",
                   !.whales = @ \o [i \in 1..Len(@) |-> [@[i] EXCEPT !.geometry = "model"]]]
    ELSE [c EXCEPT !.load = outcome]

\* WhaleController.tryLoadModel from the await on: the geometry of a resolved
\* promise is kept and a clone of it given to every whale
TryLoadWhaleModel(c, outcome) ==
  IF outcome = "resolved"
    THEN [c EXCEPT !.load = outcome, !.modelGeometry = "model",
                   !.whales = [i \in 1..Len(@) |-> [@[i] EXCEPT !.geometry = "model"]]]
    ELSE [c EXCEPT !.load = outcome]

\* the promise of WhaleController.loadModel settles
WhaleModelLoadSettles ==
  /\ whaleController.load = "pending"
  /\ \E outcome \in {"resolved", "rejected"} :
       whaleController' = TryLoadWhaleModel(whaleController, outcome)
  /\ UNCHANGED <<creatureType, fishes, time, matrices, lastTick, ticks, startFishes,
                 scenario, calls, restored, outsideFor, tables, thrown, mesh, modelLoaded,
                 load, lastWhaleTick, viewer, lastCall, app>>

NextManager ==
  \/ ManagerUpdate
  \/ UpdateVisibility
  \/ GetCreaturesNearCamera
  \/ SetEnvironmentMap
  \/ ModelLoadSettles
  \/ WhaleModelLoadSettles

SpecManager == NewCreatureManager /\ [][NextManager]_vars

---------------------------------------------------------------------------
(* dispose of a school and of the whales while their model loads are pending *)

\* FishSchool.dispose(): the geometry and the material are freed and the mesh
\* is taken out of the scene; this.mesh, this.fishes and the promise of
\* loadModel stay as they are
SchoolDispose ==
  /\ mesh' = IF HasMesh(mesh) THEN [mesh EXCEPT !.inScene = FALSE] ELSE mesh
  /\ UNCHANGED <<creatureType, fishes, time, matrices, lastTick, ticks, startFishes,
                 scenario, calls, restored, outsideFor, tables, thrown, modelLoaded, load,
                 whaleController, lastWhaleTick, viewer, lastCall, app>>

\* WhaleController.dispose(): per whale the geometry, materials and label
\* texture are freed and mesh and label taken out of the scene; this.whales
\* and the promise of loadModel stay as they are
WhalesDispose ==
  /\ whaleController' = [whaleController EXCEPT !.inScene = FALSE]
  /\ UNCHANGED <<creatureType, fishes, time, matrices, lastTick, ticks, startFishes,
                 scenario, calls, restored, outsideFor, tables, thrown, mesh, modelLoaded,
                 load, lastWhaleTick, viewer, lastCall, app>>

NextDisposal ==
  \/ ManagerUpdate
  \/ SchoolDispose
  \/ WhalesDispose
  \/ ModelLoadSettles
  \/ WhaleModelLoadSettles

SpecDisposal == NewCreatureManager /\ [][NextDisposal]_vars

---------------------------------------------------------------------------
(* CameraPath and the Controls it switches: play, stop, update *)

\* a keyframe of a path: position and lookAt in position units, time in
\* thousandths of the path
Key(px, py, pz, lx, ly, lz, t) ==
  [position |-> Vec(px * 1000, py * 1000, pz * 1000),
   lookAt |-> Vec(lx * 1000, ly * 1000, lz * 1000), time |-> t]

\* this.paths of definePaths: duration in seconds, points in order
Paths ==
  [ theDive |->
      [duration |-> 30,
       points |-> << Key(0, 5, 100, 0, 0, 0, 0),        Key(50, -10, 50, 0, -20, 0, 100),
                     Key(30, -40, 30, 0, -50, 0, 250),  Key(-20, -80, 40, 0, -90, 0, 450),
                     Key(10, -120, 20, 0, -130, 0, 650), Key(-30, -160, 30, 0, -170, 0, 800),
                     Key(0, -190, 50, 0, -190, 0, 1000) >>],
    theRise |->
      [duration |-> 25,
       points |-> << Key(0, -190, 50, 0, -180, 0, 0),    Key(20, -150, 30, 0, -140, 0, 150),
                     Key(-10, -100, 40, 0, -90, 0, 350), Key(30, -50, 30, 0, -40, 0, 550),
                     Key(-20, -20, 50, 0, -10, 0, 750),  Key(0, 5, 80, 0, 0, 0, 1000) >>],
    whaleWatch |->
      [duration |-> 20,
       points |-> << Key(100, -5, 0, 0, -5, 0, 0),     Key(70, -8, 70, 0, -5, 0, 250),
                     Key(0, -10, 100, 0, -5, 0, 500),  Key(-70, -8, 70, 0, -5, 0, 750),
                     Key(-100, -5, 0, 0, -5, 0, 1000) >>],
    scaleComparison |->
      [duration |-> 15,
       points |-> << Key(50, -5, 50, 30, -5, 30, 0),       Key(35, -5, 35, 30, -5, 30, 300),
                     Key(30, -100, 30, 30, -180, 30, 600), Key(30, -185, 30, 0, -190, 0, 1000) >>],
    overview |->
      [duration |-> 20,
       points |-> << Key(200, 50, 200, 0, -100, 0, 0), Key(-200, 30, 200, 0, -100, 0, 500),
                     Key(-200, 10, -200, 0, -100, 0, 1000) >>],
    lonelyWhale |->
      [duration |-> 25,
       points |-> << Key(80, -3, 30, 50, -5, 0, 0),     Key(60, -5, 10, 50, -5, 0, 200),
                     Key(55, -6, -5, 50, -5, 0, 400),   Key(45, -4, -20, 50, -5, 0, 600),
                     Key(30, -8, -10, 50, -5, 0, 800),  Key(20, -10, 20, 50, -5, 0, 1000) >>] ]

\* keys that every object literal answers to through Object.prototype
InheritedKeys == {"constructor"}

\* a number that is NaN (pathProgress and pathDuration are never negative)
NotANumber == -1

\* pathProgress of 1, in millionths
FullProgress == 1000000

\* new Controls(camera, canvas): enabled, no key held, at rest
NewControls == [enabled |-> TRUE, moveUp |-> FALSE, moveDown |-> FALSE, velocityY |-> 0]

\* new CameraPath(camera, controls); completions: (history) the calls of
\* onComplete since the last play that started a path; ended: (history) how
\* that playback ended, if it has; updates: (history) the update calls of
\* positive deltaTime it was given while playing a path of definePaths;
\* thrown: the error that escaped the last update; call: (history) the last
\* direct call of a method, with isPlaying and controls.enabled before it
NoPathCall == [method |-> "none", pathName |-> "", wasPlaying |-> FALSE, wasEnabled |-> TRUE]

NewCameraPath ==
  [isPlaying |-> FALSE, currentPath |-> "null", pathProgress |-> 0, pathDuration |-> 0,
   onComplete |-> "null", completions |-> 0, ended |-> "no", updates |-> 0,
   thrown |-> "none", call |-> NoPathCall]

\* whether this.paths[pathName] is truthy
PathFound(pathName) == pathName \in DOMAIN Paths \/ pathName \in InheritedKeys

\* path.duration of this.paths[pathName]
DurationOf(pathName) ==
  IF pathName \in DOMAIN Paths THEN Paths[pathName].duration ELSE NotANumber

\* Controls.setEnabled(enabled)
SetEnabled(c, enabled) == [c EXCEPT !.enabled = enabled]

\* CameraPath.play(pathName, onComplete) on the camera path of a
Play(a, pathName, onComplete) ==
  IF ~PathFound(pathName) THEN a
  ELSE [a EXCEPT !.cameraPath =
                   [@ EXCEPT !.isPlaying = TRUE, !.currentPath = pathName,
                             !.pathProgress = 0, !.pathDuration = DurationOf(pathName),
                             !.onComplete = onComplete, !.completions = 0,
                             !.ended = "no", !.updates = 0],
                 !.controls = SetEnabled(@, FALSE)]

\* CameraPath.stop()
Stop(a) ==
  [a EXCEPT !.cameraPath =
              [@ EXCEPT !.isPlaying = FALSE, !.currentPath = "null",
                        !.ended = IF @ = "no" /\ a.cameraPath.isPlaying THEN "stopped" ELSE @],
            !.controls = SetEnabled(@, TRUE)]

\* PostProcessing.setCinematicMode(enabled): bloom, vignette, contrast and
\* depth of field as it leaves them (strength and darkness in thousandths)
SetCinematicMode(pp, enabled) ==
  IF enabled
    THEN [pp EXCEPT !.bloomStrength = 1200, !.vignette = 600, !.contrast = 1150,
                    !.bokeh = TRUE]
    ELSE [pp EXCEPT !.bloomStrength = 800, !.vignette = 400, !.contrast = 1050,
                    !.bokeh = FALSE]

\* the callback given to play is called: the closure of startCinematic and
\* playCinematic leaves cinematic mode, the resolve of playAll settles its
\* promise
Invoked(a, onComplete) ==
  IF onComplete = "null" THEN a
  ELSE IF onComplete = "leaveCinematic"
    THEN [a EXCEPT !.cameraPath.completions = @ + 1,
                   !.cinematicMode = FALSE, !.bodyCinematic = FALSE,
                   !.hud.visible = TRUE,
                   !.postProcessing = SetCinematicMode(@, FALSE)]
  ELSE [a EXCEPT !.cameraPath.completions = @ + 1]

\* (mutant) a pathProgress that stays where it is
AdvancedNowhere(pathProgress, deltaTime, pathDuration) ==
  IF pathProgress = NotANumber \/ pathDuration = NotANumber THEN NotANumber
  ELSE pathProgress

\* pathProgress + deltaTime / pathDuration, deltaTime in ms
Advanced(pathProgress, deltaTime, pathDuration) ==
  IF pathProgress = NotANumber \/ pathDuration = NotANumber THEN NotANumber
  ELSE pathProgress + (deltaTime * 1000) \div pathDuration

\* the first i from which on points[i].time <= progress < points[i + 1].time,
\* or 1 if there is none (p1 = points[0], p2 = points[1])
RECURSIVE Segment(_, _, _)
Segment(points, progress, i) ==
  IF i >= Len(points) THEN 1
  ELSE IF progress >= points[i].time * 1000 /\ progress < points[i + 1].time * 1000 THEN i
  ELSE Segment(points, progress, i + 1)

\* easeInOutCubic(t), t and the result in thousandths
EaseInOutCubic(t) ==
  IF t < 500 THEN (4 * t * t * t) \div 1000000
  ELSE 1000 - Quot((2000 - 2 * t) * (2000 - 2 * t) * (2000 - 2 * t), 2000000)

\* new THREE.Vector3().lerpVectors(a, b, t), t in thousandths
LerpVectors(a, b, t) ==
  Vec(a.x + Quot((b.x - a.x) * t, 1000), a.y + Quot((b.y - a.y) * t, 1000),
      a.z + Quot((b.z - a.z) * t, 1000))

\* the camera position update interpolates at progress between the
\* keyframes p1 and p2
Interpolated(p1, p2, progress) ==
  LerpVectors(p1.position, p2.position,
              EaseInOutCubic(((progress - p1.time * 1000) * 1000)
                               \div ((p2.time - p1.time) * 1000)))

\* the camera position of update at progress along the points
PositionAt(points, progress) ==
  Interpolated(points[Segment(points, progress, 1)],
               points[Segment(points, progress, 1) + 1], progress)

\* CameraPath.update(deltaTime) of a playing path, progress being the
\* advanced pathProgress: a NaN leaves update at points[0] of an undefined
\* points with a TypeError; at 1 the playback ends, the controls are
\* re-enabled and onComplete is called; below 1 the camera is placed
PathUpdatePlaying(a, deltaTime, progress) ==
  IF progress = NotANumber
    THEN [a EXCEPT !.cameraPath.pathProgress = progress, !.cameraPath.thrown = "TypeError"]
  ELSE IF progress >= FullProgress
    THEN Invoked([a EXCEPT !.cameraPath.pathProgress = FullProgress,
                           !.cameraPath.isPlaying = FALSE,
                           !.cameraPath.ended = "completed",
                           !.controls = SetEnabled(@, TRUE)],
                 a.cameraPath.onComplete)
  ELSE [a EXCEPT !.cameraPath.pathProgress = progress,
                 !.camera = PositionAt(Paths[a.cameraPath.currentPath].points, progress)]

\* CameraPath.update(deltaTime)
PathUpdate(a, deltaTime) ==
  IF ~a.cameraPath.isPlaying \/ a.cameraPath.currentPath = "null"
    THEN [a EXCEPT !.cameraPath.thrown = "none"]
    ELSE PathUpdatePlaying(
           [a EXCEPT !.cameraPath.thrown = "none",
                     !.cameraPath.updates =
                        IF deltaTime > 0 /\ a.cameraPath.pathDuration # NotANumber
                          THEN @ + 1 ELSE @],
           deltaTime,
           Advanced(a.cameraPath.pathProgress, deltaTime, a.cameraPath.pathDuration))

---------------------------------------------------------------------------
(* A CameraPath and its Controls driven by direct calls *)

\* the school, the whales and the history of the calls made to them
creatures ==
  <<creatureType, fishes, time, matrices, lastTick, ticks, startFishes, scenario, calls,
    restored, outsideFor, tables, thrown, mesh, modelLoaded, load, whaleController,
    lastWhaleTick, viewer, lastCall>>

\* new THREE.Clock(): autoStart, not running
NewClock == [autoStart |-> TRUE, running |-> FALSE]

\* new PostProcessing(renderer, scene, camera)
NewPostProcessing ==
  [enabled |-> TRUE, bloomStrength |-> 800, vignette |-> 400, contrast |-> 1050,
   bokeh |-> FALSE]

\* no frame animated yet
NoFrame == [delta |-> 0, deltaTime |-> 0, cameraPosition |-> Zero, handed |-> {}]

\* (history) the last step was no key press
NoKey == [code |-> "none", wasPlaying |-> FALSE, wasCinematic |-> FALSE]

\* new WealthOcean() as init leaves it before the first frame
NewApp ==
  [constructed |-> TRUE, time |-> 0, clock |-> NewClock, hidden |-> FALSE,
   cinematicMode |-> FALSE, bodyCinematic |-> FALSE, camera |-> StartPosition,
   controls |-> NewControls, cameraPath |-> NewCameraPath,
   hud |-> [visible |-> TRUE, currentBracket |-> "none"],
   postProcessing |-> NewPostProcessing, frame |-> NoFrame, key |-> NoKey]

\* the path names play is called with: two paths of definePaths, a name
\* that is no key of this.paths, and a key this.paths inherits
PlayNames == {"theDive", "scaleComparison", "nowhere", "constructor"}

\* the callbacks play is called with: none, and the resolve of playAll
PlayCallbacks == {"null", "resolve"}

\* the deltaTime of the direct calls of update, in ms
PathDeltaTimes == {0, 100, 5000}

\* a CameraPath over a camera and its Controls, no WealthOcean around them
CameraPathAlone ==
  /\ NoFishSchool
  /\ matrices = <<>>
  /\ lastTick = NoTick
  /\ ticks = 0
  /\ startFishes = <<>>
  /\ scenario = "playback"
  /\ calls = NoCalls
  /\ restored = NoSchool
  /\ outsideFor = <<>>
  /\ whaleController = NoController
  /\ lastWhaleTick = NoWhaleTick
  /\ viewer = StartPosition
  /\ lastCall = NoManagerCall
  /\ app = [NewApp EXCEPT !.constructed = FALSE]

\* the call method(pathName) made of the camera path of a
PathCall(a, method, pathName) ==
  [method |-> method, pathName |-> pathName, wasPlaying |-> a.cameraPath.isPlaying,
   wasEnabled |-> a.controls.enabled]

\* cameraPath.play(pathName, onComplete)
PlayCalled ==
  /\ \E pathName \in PlayNames, onComplete \in PlayCallbacks :
       app' = [Play(app, pathName, onComplete) EXCEPT
                 !.cameraPath.call = PathCall(app, "play", pathName)]
  /\ UNCHANGED creatures

\* cameraPath.stop()
StopCalled ==
  /\ app' = [Stop(app) EXCEPT !.cameraPath.call = PathCall(app, "stop", "")]
  /\ UNCHANGED creatures

\* cameraPath.update(deltaTime)
UpdateCalled ==
  /\ \E deltaTime \in PathDeltaTimes :
       app' = [PathUpdate(app, deltaTime) EXCEPT
                 !.cameraPath.call = PathCall(app, "update", "")]
  /\ UNCHANGED creatures

NextPlayback == PlayCalled \/ StopCalled \/ UpdateCalled

SpecPlayback == CameraPathAlone /\ [][NextPlayback]_vars

---------------------------------------------------------------------------
(* WealthOcean: the animation frame, the keys and the cinematics *)

\* the first bracket from k on whose depth band holds depth, 0 if none
RECURSIVE FindByDepth(_, _)
FindByDepth(depth, k) ==
  IF k > Len(WEALTH_BRACKETS) THEN 0
  ELSE IF depth >= WEALTH_BRACKETS[k].depth.min /\ depth <= WEALTH_BRACKETS[k].depth.max
    THEN k
  ELSE FindByDepth(depth, k + 1)

\* getBracketByDepth(depth) of wealthData.js
GetBracketByDepth(depth) ==
  IF FindByDepth(depth, 1) # 0 THEN WEALTH_BRACKETS[FindByDepth(depth, 1)]
  ELSE WEALTH_BRACKETS[1]

\* CreatureManager.getCurrentBracket(cameraY)
GetCurrentBracket(cameraY) ==
  IF FindByDepth(Abs(cameraY), 1) # 0 THEN WEALTH_BRACKETS[FindByDepth(Abs(cameraY), 1)]
  ELSE WEALTH_BRACKETS[1]

\* HUD.update(cameraY, nearbyCreatures): the bracket it looks up becomes
\* currentBracket
HudUpdate(hud, cameraY) == [hud EXCEPT !.currentBracket = GetBracketByDepth(cameraY).id]

\* PostProcessing.update(deltaTime, cameraY): bloomPass.strength is set from
\* the depth
PostProcessingUpdate(pp, cameraY) ==
  [pp EXCEPT !.bloomStrength = 500 + Max2(0, 1000 - Abs(cameraY) \div 50) \div 2]

\* clock.getDelta() of THREE.Clock, elapsed ms after the clock was last
\* read or started: a clock that starts itself returns 0, a stopped one 0
GetDelta(clock, elapsed) ==
  IF clock.autoStart /\ ~clock.running THEN 0
  ELSE IF clock.running THEN elapsed
  ELSE 0

\* the clock after getDelta()
ClockRead(clock) ==
  IF clock.autoStart /\ ~clock.running THEN [clock EXCEPT !.running = TRUE] ELSE clock

\* (mutant) the delta of the clock handed on as it is
FrameDeltaUnclamped(delta) == delta

\* deltaTime = Math.min(this.clock.getDelta(), 0.1)
FrameDelta(delta) == Min2(delta, MaxDeltaTime)

\* Math.max(lo, Math.min(hi, v))
Clamped(v, lo, hi) == Max2(lo, Min2(hi, v))

\* velocity.y of Controls.update after the deceleration and the push of the
\* held keys (direction.y is 1, -1 or 0 with no horizontal key held)
ControlsVelocityY(c, deltaTime) ==
  c.velocityY - Quot(c.velocityY * 5 * deltaTime, 1000)
    + ( IF c.moveUp = c.moveDown THEN 0
        ELSE IF c.moveUp THEN 30 * deltaTime ELSE -(30 * deltaTime) )

\* Controls.update(deltaTime) with the vertical velocity vy: no horizontal
\* key is held, so the camera moves along y only, and is kept within
\* [minY, maxY] and 240 of the axes
ControlsMoved(a, deltaTime, vy) ==
  [a EXCEPT !.controls.velocityY = vy,
            !.camera = Vec(Clamped(@.x, -240000, 240000),
                           Clamped(@.y + Quot(vy * deltaTime, 1000), -195000, 10000),
                           Clamped(@.z, -240000, 240000))]

\* Controls.update(deltaTime)
ControlsUpdate(a, deltaTime) ==
  IF ~a.controls.enabled THEN a
  ELSE ControlsMoved(a, deltaTime, ControlsVelocityY(a.controls, deltaTime))

\* the head of animate: the camera path or else the controls are updated
CameraMoved(a, deltaTime) ==
  IF a.cameraPath.isPlaying THEN PathUpdate(a, deltaTime) ELSE ControlsUpdate(a, deltaTime)

\* the tail of animate, the camera being where a has it: the HUD and the
\* post-processing are updated; frame is the history of the frame
FrameDone(a, delta, deltaTime) ==
  [a EXCEPT !.time = @ + deltaTime,
            !.clock = ClockRead(@),
            !.hud = HudUpdate(@, a.camera.y),
            !.postProcessing = PostProcessingUpdate(@, a.camera.y),
            !.frame = [delta |-> delta, deltaTime |-> deltaTime,
                       cameraPosition |-> a.camera, handed |-> {deltaTime}],
            !.key = NoKey]

\* the ms that have passed when a frame is animated: a frame of 60 per
\* second, and one after the page was held up for 5 s
Elapsed == {16, 5000}

\* the values of Math.random() of the schools and whales in a frame
FrameNoise == [i \in 1..Len(fishes) |-> NoNoise]

FrameWhaleNoise == [i \in 1..WhaleCount |-> [x |-> 50, z |-> 50]]

\* animate() with the clock's delta, deltaTime and the WealthOcean a with
\* its camera moved: CreatureManager.update and updateVisibility with
\* camera.position, then the HUD and the post-processing
FrameAnimated(a, delta, deltaTime) ==
  /\ SchoolUpdate(deltaTime, a.camera, FrameNoise)
  /\ IF thrown' = "none"
       THEN /\ WhalesUpdated(deltaTime, lastTick'.viewer, FrameWhaleNoise)
            /\ viewer' = lastWhaleTick'.viewer
       ELSE /\ UNCHANGED <<whaleController, lastWhaleTick>>
            /\ viewer' = lastTick'.viewer
  /\ mesh' = SetVisibility(mesh, WithinView(a.camera, 200000))
  /\ lastCall' = ManagerCall("getCreaturesNearCamera", a.camera, 0)
  /\ app' = FrameDone(a, delta, deltaTime)

\* animate(): one frame
Animate ==
  /\ ticks < TickBudget
  /\ \E elapsed \in Elapsed :
       FrameAnimated(CameraMoved(app, FrameDelta(GetDelta(app.clock, elapsed))),
                     GetDelta(app.clock, elapsed),
                     FrameDelta(GetDelta(app.clock, elapsed)))
  /\ UNCHANGED <<creatureType, scenario, calls, tables, modelLoaded, load>>

\* the visibilitychange listener: the clock is stopped when the document
\* becomes hidden and started when it is shown
VisibilityChange ==
  /\ app' = [app EXCEPT !.hidden = ~@,
                        !.key = NoKey,
                        !.clock = IF app.hidden THEN [@ EXCEPT !.running = TRUE]
                                  ELSE [running |-> FALSE, autoStart |-> FALSE]]
  /\ UNCHANGED creatures

\* startCinematic() and playCinematic(pathName): cinematic mode on, the HUD
\* hidden, the cinematic post-processing on, the path played with the
\* closure that undoes the three
PlayCinematic(a, pathName) ==
  Play([a EXCEPT !.cinematicMode = TRUE, !.bodyCinematic = TRUE, !.hud.visible = FALSE,
                 !.postProcessing = SetCinematicMode(@, TRUE)],
       pathName, "leaveCinematic")

\* the Space branch of WealthOcean.onKeyDown
SpacePressed(a) ==
  IF ~a.cinematicMode /\ ~a.cameraPath.isPlaying THEN PlayCinematic(a, "theDive")
  ELSE IF a.cameraPath.isPlaying
    THEN [Stop(a) EXCEPT !.cinematicMode = FALSE, !.bodyCinematic = FALSE,
                         !.hud.visible = TRUE]
  ELSE a

\* Controls.onKeyDown for Space: moveUp, if the controls are enabled
ControlsSpaceDown(a) ==
  IF a.controls.enabled THEN [a EXCEPT !.controls.moveUp = TRUE] ELSE a

\* keydown of Space: the listener of Controls on document, then the
\* listener of WealthOcean on window; key: (history) the key pressed in the
\* last step and the state it was pressed in
KeyDownSpace ==
  /\ app' = [SpacePressed(ControlsSpaceDown(app)) EXCEPT
               !.key = [code |-> "Space", wasPlaying |-> app.cameraPath.isPlaying,
                        wasCinematic |-> app.cinematicMode]]
  /\ UNCHANGED creatures

\* keyup of Space: Controls.onKeyUp
KeyUpSpace ==
  /\ app' = [app EXCEPT !.controls.moveUp = FALSE,
                        !.key = [code |-> "SpaceUp", wasPlaying |-> app.cameraPath.isPlaying,
                                 wasCinematic |-> app.cinematicMode]]
  /\ UNCHANGED creatures

\* the paths of the keys 1 and 4 (window.cinematics.dive and .scale)
DigitPaths == {"theDive", "scaleComparison"}

\* keydown of a digit, or a call of window.cinematics by name
KeyDownDigit ==
  /\ \E pathName \in DigitPaths :
       app' = [PlayCinematic(app, pathName) EXCEPT
                 !.key = [code |-> "Digit", wasPlaying |-> app.cameraPath.isPlaying,
                          wasCinematic |-> app.cinematicMode]]
  /\ UNCHANGED creatures

\* window.cinematics.stop()
CinematicsStop ==
  /\ app' = [Stop(app) EXCEPT
               !.key = [code |-> "stop", wasPlaying |-> app.cameraPath.isPlaying,
                        wasCinematic |-> app.cinematicMode]]
  /\ UNCHANGED creatures

\* new WealthOcean(): the manager, the controls, the camera path, the HUD
\* and the post-processing as init leaves them
NewWealthOcean == ManagerConstructed("app", NewApp)

NextApp ==
  \/ Animate
  \/ VisibilityChange
  \/ KeyDownSpace
  \/ KeyUpSpace
  \/ KeyDownDigit
  \/ CinematicsStop

SpecApp == NewWealthOcean /\ [][NextApp]_vars

---------------------------------------------------------------------------
(* Readings of the history variables *)

\* the fish indices (0-based) of the school
Indices == 0..(Len(fishes) - 1)

MaxSpeed == Config.speed

MinSpeed == Quot(Config.speed * 3, 10)

\* The position of fish n that fish i read while it was processed in the
\* last update: fish are processed in ascending order, each one written back
\* before the next is read.
PosSeenBy(i, n) ==
  IF n < i THEN fishes[n + 1].position ELSE startFishes[n + 1].position

\* the velocity of fish n that fish i read in the last update
VelSeenBy(i, n) ==
  IF n < i THEN fishes[n + 1].velocity ELSE startFishes[n + 1].velocity

\* the vector from the camera to fish i when its flee force was computed
FromCamera(i) == VSub(startFishes[i + 1].position, lastTick.cameraPosition)

\* whether fish i was within the flee radius of the camera
NearCamera(i) == CloserThan(startFishes[i + 1].position, lastTick.cameraPosition, FleeRadius)

\* the school Init constructs with every fish at one point and velocity zero
Coincident(fs) ==
  \A i \in 1..Len(fs) : fs[i].position = fs[1].position /\ fs[i].velocity = Zero

---------------------------------------------------------------------------
(* C1  Speed limits.                                                       *)
(* In every state (the constructed school and the school after each        *)
(* update) every fish has 0.3 * speed <= |velocity| <= speed.              *)
(* The code breaks it three ways: initializeFish draws velocities of any   *)
(* magnitude from 0 up, update adds the depth correction of 0.01 after     *)
(* applySwimmingBehavior has limited the speed, and normalize() leaves a   *)
(* zero velocity at zero.                                                  *)

C1_SpeedWithinLimits ==
  \A i \in Indices :
     /\ LengthSq(fishes[i + 1].velocity) >= MinSpeed * MinSpeed
     /\ LengthSq(fishes[i + 1].velocity) <= MaxSpeed * MaxSpeed

---------------------------------------------------------------------------
(* C2  Horizontal reflection.                                              *)
(* After every update, for every fish and for x and z alike: if the        *)
(* coordinate was beyond 250 in absolute value after the position was      *)
(* integrated, it has been multiplied by -0.9 and is now strictly inside   *)
(* 250; otherwise it is as integrated; and in every state |x| <= 250 and   *)
(* |z| <= 250.  (deltaTime is at most 0.1, so one tick moves a fish by at  *)
(* most 0.1 * speed.)                                                      *)

\* coordinate c after the tick, given its value m after integration
Reflected(m, c) ==
  IF Abs(m) > WorldRadius
    THEN c = Quot(m * (-9), 10) /\ Abs(c) < WorldRadius
    ELSE c = m

C2_HorizontalReflection ==
  /\ \A i \in Indices :
        /\ Abs(fishes[i + 1].position.x) <= WorldRadius
        /\ Abs(fishes[i + 1].position.z) <= WorldRadius
  /\ ticks > 0 =>
        \A i \in Indices :
           /\ Reflected(lastTick.moved[i + 1].x, fishes[i + 1].position.x)
           /\ Reflected(lastTick.moved[i + 1].z, fishes[i + 1].position.z)

\* a fish crossed the bound in the last update and was reflected, while
\* another one ended the tick exactly on the bound
C2_Witness ==
  /\ ticks > 0
  /\ \E i \in Indices : Abs(lastTick.moved[i + 1].x) > WorldRadius
  /\ \E i \in Indices : Abs(lastTick.moved[i + 1].z) > WorldRadius
  /\ \E i \in Indices : Abs(fishes[i + 1].position.x) = WorldRadius

---------------------------------------------------------------------------
(* C3  Depth containment convergence.                                      *)
(* A fish that is outside its depth band is back inside it within a        *)
(* bounded number of ticks of positive deltaTime: no fish has ended more   *)
(* than ReentryBound such ticks in a row outside the band.                 *)
(* The code adds the correction of 0.01 to velocity.y after the speed has  *)
(* been limited; at the next tick applySwimmingBehavior scales a velocity  *)
(* below 0.3 * speed back up to 0.3 * speed in its own direction, which    *)
(* undoes the correction of a fish heading straight up or down.            *)

C3_ReentersWithinBound ==
  \A i \in Indices : outsideFor[i + 1] <= ReentryBound

---------------------------------------------------------------------------
(* C4  Dispersal.                                                          *)
(* After the first update of a school whose fish all started at one point  *)
(* with zero velocity, every fish has a non-zero velocity and the          *)
(* separation step added a non-zero force to it.                           *)
(* The code skips neighbours at distance 0 (dist > 0), so separation adds  *)
(* nothing; with every noise value 0.5 and the camera away the fish stay   *)
(* at rest.                                                                *)

C4_CoincidentSchoolDisperses ==
  (ticks = 1 /\ lastTick.deltaTime > 0 /\ Coincident(startFishes)) =>
     \A i \in Indices :
        /\ fishes[i + 1].velocity # Zero
        /\ lastTick.trace[i + 1].separation # Zero

---------------------------------------------------------------------------
(* C9  No separation at long range.                                        *)
(* In every update, a fish none of whose sampled neighbours is closer than *)
(* 5 * baseSize gets a separation force of exactly zero, also when it has  *)
(* neighbours.                                                             *)

\* no neighbour fish i sampled in the last update was closer than 5 * baseSize
NoCloseNeighbor(i) ==
  \A k \in 1..Len(lastTick.trace[i + 1].neighbors) :
     ~CloserThan(startFishes[i + 1].position,
                 PosSeenBy(i, lastTick.trace[i + 1].neighbors[k]),
                 Config.baseSize * 5)

C9_NoSeparationAtLongRange ==
  ticks > 0 =>
     \A i \in Indices : NoCloseNeighbor(i) => lastTick.trace[i + 1].separation = Zero

\* a fish with neighbours, all of them at long range, has been updated
C9_Witness ==
  /\ ticks > 0
  /\ \E i \in Indices :
        /\ lastTick.trace[i + 1].neighbors # <<>>
        /\ NoCloseNeighbor(i)
        /\ lastTick.trace[i + 1].cohesion # Zero
        /\ lastTick.trace[i + 1].separation = Zero

---------------------------------------------------------------------------
(* C10  Viewer avoidance.                                                  *)
(* As claimed: the flee force is zero at a camera distance d >= 25, has    *)
(* magnitude 0.03 * (1 - d/25) for every d < 25, d = 0 included, and is    *)
(* strictly larger at d1 than at d2 whenever d1 < d2 < 25.                 *)
(* The code normalizes the vector from the camera to the fish, and         *)
(* normalize() leaves the zero vector at zero: at d = 0 the force is zero. *)
(* Amended: the magnitude is 0.03 * (1 - d/25) for 0 < d < 25, strictly    *)
(* decreasing there, and the force is zero at d = 0 and at d >= 25.        *)
(* Magnitudes are compared at the resolution of the model: within 2        *)
(* velocity units (0.0002) of the formula, and strictly ordered for        *)
(* distances at least 500 position units (0.5) apart.                      *)

\* the camera distance of fish i in the last update
CameraDistance(i) == Length(FromCamera(i))

\* 0.03 * (1 - d/25) in velocity units, d in position units
ClaimedFleeMagnitude(d) == (3 * (25000 - d)) \div 250

FleeOf(i) == lastTick.trace[i + 1].flee

WithinTwo(a, b) == a <= b + 2 /\ b <= a + 2

C10_FleeFalloffIncludingZero ==
  ticks > 0 =>
     \A i \in Indices :
        /\ ~NearCamera(i) => FleeOf(i) = Zero
        /\ NearCamera(i) =>
              WithinTwo(Length(FleeOf(i)), ClaimedFleeMagnitude(CameraDistance(i)))
        /\ \A j \in Indices :
              (NearCamera(i) /\ NearCamera(j)
                 /\ CameraDistance(i) + 500 <= CameraDistance(j))
              => Length(FleeOf(i)) > Length(FleeOf(j))

C10_FleeFalloff ==
  ticks > 0 =>
     \A i \in Indices :
        /\ ~NearCamera(i) => FleeOf(i) = Zero
        /\ FromCamera(i) = Zero => FleeOf(i) = Zero
        /\ (NearCamera(i) /\ FromCamera(i) # Zero) =>
              WithinTwo(Length(FleeOf(i)), ClaimedFleeMagnitude(CameraDistance(i)))
        /\ \A j \in Indices :
              (NearCamera(i) /\ NearCamera(j) /\ FromCamera(i) # Zero
                 /\ CameraDistance(i) + 500 <= CameraDistance(j))
              => Length(FleeOf(i)) > Length(FleeOf(j))

\* one update in which a fish sat on the camera, another fled from nearby
\* and a third, farther off but within the radius, fled less
C10_Witness ==
  /\ ticks > 0
  /\ \E i, j, k \in Indices :
        /\ FromCamera(k) = Zero
        /\ NearCamera(i) /\ NearCamera(j)
        /\ FromCamera(i) # Zero
        /\ CameraDistance(i) + 500 <= CameraDistance(j)
        /\ Length(FleeOf(i)) > Length(FleeOf(j))
        /\ FleeOf(j) # Zero

---------------------------------------------------------------------------
(* C5  Round trip.                                                         *)
(* Original statement: once the school restored from the saved (position,  *)
(* velocity, scale, phase) of every fish has been ticked with the same     *)
(* deltaTime, camera and noise values as the original, its fish have the   *)
(* same four fields as the original's and it has written the same instance *)
(* matrices.                                                               *)
(* The code computes the wiggle angles of the matrix from this.time and    *)
(* fish.swimFrequency, neither of which is among the four fields.          *)

\* the four saved fields of a fish
Saved(fish) ==
  [position |-> fish.position, velocity |-> fish.velocity,
   scale |-> fish.scale, phase |-> fish.phase]

SameFishState ==
  \A i \in 1..Len(fishes) : Saved(restored.fishes[i]) = Saved(fishes[i])

\* the matrices agree in position, scale and heading
SamePlacement ==
  \A i \in 1..Len(fishes) :
     /\ restored.matrices[i].position = matrices[i].position
     /\ restored.matrices[i].scale = matrices[i].scale
     /\ restored.matrices[i].rotation.look = matrices[i].rotation.look

\* the two schools agree in school time and in every swimFrequency as well
SameClockAndFrequency ==
  /\ restored.time = time
  /\ \A i \in 1..Len(fishes) : restored.fishes[i].swimFrequency = fishes[i].swimFrequency

C5_RoundTripSameOutputs ==
  restored.ticks > 0 => SameFishState /\ restored.matrices = matrices

(* C5, as the code has it: after every tick of the restored school its     *)
(* fish have the same position, velocity, scale and phase as the           *)
(* original's and its matrices the same position, scale and heading; the   *)
(* matrices are the same altogether when school time and every             *)
(* swimFrequency agree too.                                                *)
C5_RoundTripUpToWiggle ==
  restored.ticks > 0 =>
     /\ SameFishState
     /\ SamePlacement
     /\ SameClockAndFrequency => restored.matrices = matrices

\* a school restored after the first tick and ticked once: the fish have
\* moved, and the matrices differ from the original's in the wiggle
C5_Witness ==
  /\ restored.ticks > 0
  /\ restored.time # time
  /\ restored.matrices # matrices
  /\ \E i \in 1..Len(fishes) :
        /\ fishes[i].position # startFishes[i].position
        /\ restored.fishes[i].swimFrequency # fishes[i].swimFrequency

---------------------------------------------------------------------------
(* C6  Neighbour reads within a tick.                                      *)
(* As claimed: the result of an update equals the result of updating every *)
(* fish against a snapshot of the school taken when the update began.      *)
(* The code takes no snapshot: fish i reads the array as it stands when    *)
(* its turn comes.                                                         *)
(* Amended: each fish is updated against the array that holds the already  *)
(* updated state of the fish of lower index and the start-of-tick state of *)
(* the others; its result equals the snapshot result when none of its      *)
(* candidate indices is lower than its own (the first fish, always).       *)

\* the school after an update in which every fish reads the snapshot fs
SnapshotUpdate(fs, deltaTime, cameraPosition, rnds) ==
  [n \in 1..Len(fs) |->
     StepFish(fs, n - 1, 0, deltaTime, cameraPosition, rnds[n], Identity).fish]

\* the school of the last update as the snapshot tick would have left it
SnapshotOfLastTick ==
  SnapshotUpdate(startFishes, lastTick.deltaTime, lastTick.cameraPosition, lastTick.rnds)

\* the array fish i found in the last update
ArraySeenBy(i) ==
  [n \in 1..Len(fishes) |-> IF n - 1 < i THEN fishes[n] ELSE startFishes[n]]

\* the indices getNeighbors(fish, i, 10) looks at
Candidates(i) ==
  {(i + j * 7) % Len(fishes) : j \in 0..(Min2(10, Len(fishes)) - 1)} \ {i}

C6_TickSynchronous == ticks > 0 => fishes = SnapshotOfLastTick

C6_ReadsCurrentArray ==
  ticks > 0 =>
     \A i \in Indices :
        /\ fishes[i + 1] = StepFish(ArraySeenBy(i), i, 0, lastTick.deltaTime,
                                    lastTick.cameraPosition, lastTick.rnds[i + 1],
                                    Identity).fish
        /\ (\A c \in Candidates(i) : c > i) => fishes[i + 1] = SnapshotOfLastTick[i + 1]

\* an update in which the first fish had neighbours and a later fish came out
\* differently than against the snapshot
C6_Witness ==
  /\ ticks > 0
  /\ lastTick.deltaTime > 0
  /\ lastTick.trace[1].neighbors # <<>>
  /\ fishes[1] = SnapshotOfLastTick[1]
  /\ \E i \in Indices : i > 0 /\ fishes[i + 1] # SnapshotOfLastTick[i + 1]

---------------------------------------------------------------------------
(* C7  Neighbour sampler result.                                           *)
(* Every recorded call getNeighbors(fishes[i], i, k) on an array of N fish *)
(* returned exactly the fish at the indices (i + 7 j) mod N, j = 0 ..      *)
(* min(k, N) - 1, that differ from i and lie at a distance strictly below  *)
(* 0.3 * schoolRadius from fish i; fish i is not among them and there are  *)
(* at most k of them.                                                      *)

\* the candidate indices other than i
CandidateSet(i, k, n) == {(i + 7 * j) % n : j \in 0..(Min2(k, n) - 1)} \ {i}

\* whether fish c of fs is at a distance below 0.3 * schoolRadius from fish i
WithinSearchRadius(fs, i, c) ==
  LengthSq(VSub(fs[i + 1].position, fs[c + 1].position))
    < ((Config.schoolRadius * 3) \div 10) * ((Config.schoolRadius * 3) \div 10)

\* the set of the indices a call returned
Returned(call) == {call.neighbors[k] : k \in 1..Len(call.neighbors)}

SamplerResult(call) ==
  /\ Returned(call) = {c \in CandidateSet(call.index, call.count, Len(call.fishes)) :
                         WithinSearchRadius(call.fishes, call.index, c)}
  /\ call.index \notin Returned(call)
  /\ Len(call.neighbors) <= call.count

C7_SamplerResult ==
  /\ calls.first # NoCall => SamplerResult(calls.first)
  /\ calls.second # NoCall => SamplerResult(calls.second)

\* a call for 2 of the 5 fish returned one fish, and a call for 10 returned
\* some but not all of the other fish
C7_Witness ==
  /\ calls.first.count = 2
  /\ Len(calls.first.neighbors) = 1
  /\ calls.second.count = 10
  /\ Len(calls.second.neighbors) >= 2
  /\ Len(calls.second.neighbors) < Len(fishes) - 1

---------------------------------------------------------------------------
(* C8  Neighbour sampling is deterministic.                                *)
(* Two recorded calls with the same index and the same sample count,       *)
(* between which no fish position has changed, returned the same           *)
(* neighbours; and a call changes nothing of the school (fish, matrices,   *)
(* time).                                                                  *)

SamePositions(a, b) ==
  /\ Len(a) = Len(b)
  /\ \A i \in 1..Len(a) : a[i].position = b[i].position

SameCallSameResult ==
  ( /\ calls.second # NoCall
    /\ calls.first.index = calls.second.index
    /\ calls.first.count = calls.second.count
    /\ SamePositions(calls.first.fishes, calls.second.fishes) )
  => calls.first.neighbors = calls.second.neighbors

C8_SamplerDeterministic ==
  /\ []SameCallSameResult
  /\ [][calls' # calls => fishes' = fishes /\ matrices' = matrices /\ time' = time]_vars

\* the same call made before and after an update of deltaTime 0, which
\* changed velocities but no position; the call returned some fish
C8_Witness ==
  /\ calls.second # NoCall
  /\ calls.first.index = calls.second.index
  /\ calls.first.count = calls.second.count
  /\ calls.first.fishes # calls.second.fishes
  /\ SamePositions(calls.first.fishes, calls.second.fishes)
  /\ calls.first.neighbors # <<>>

---------------------------------------------------------------------------
(* C11  No neighbours, no flocking force.                                  *)
(* In every update, a fish for which getNeighbors returned the empty list  *)
(* gets a cohesion, a separation and an alignment force of exactly zero:   *)
(* its velocity after the tick is its velocity before it plus the noise    *)
(* and the flee vector, limited in speed and depth-corrected.  The three   *)
(* divisions by neighbors.length are never evaluated with a zero count     *)
(* (evaluating one would stop the check with an error).                    *)

\* fish i sampled no neighbour in the last update
NoNeighbors(i) == lastTick.trace[i + 1].neighbors = <<>>

\* the velocity of fish i after the last update if only noise, flee, the
\* speed limits and the depth correction acted on it
VelocityWithoutFlocking(i) ==
  [ LimitSpeed(VAdd(VAdd(startFishes[i + 1].velocity, lastTick.trace[i + 1].noise),
                    lastTick.trace[i + 1].flee),
               Config.speed)
    EXCEPT !.y = DepthCorrected(@, lastTick.moved[i + 1].y) ]

C11_NoNeighborsNoFlocking ==
  ticks > 0 =>
     \A i \in Indices :
        NoNeighbors(i) =>
           /\ lastTick.trace[i + 1].cohesion = Zero
           /\ lastTick.trace[i + 1].separation = Zero
           /\ lastTick.trace[i + 1].alignment = Zero
           /\ fishes[i + 1].velocity = VelocityWithoutFlocking(i)

\* an update in which one fish had no neighbour and was moved by noise
\* alone, while another had neighbours and was pulled toward them
C11_Witness ==
  /\ ticks > 0
  /\ \E i, j \in Indices :
        /\ NoNeighbors(i)
        /\ lastTick.trace[i + 1].noise # Zero
        /\ fishes[i + 1].velocity # startFishes[i + 1].velocity
        /\ ~NoNeighbors(j)
        /\ lastTick.trace[j + 1].cohesion # Zero

---------------------------------------------------------------------------
(* C12  Configuration errors surface at construction.                      *)
(* Whenever the tables lack the creature type, or lack the swimPattern of  *)
(* its configuration, the constructor has thrown and there is no school;   *)
(* and no update ever throws.                                              *)
(* The code throws for a missing creature type (this.config is undefined   *)
(* when this.config.swimPattern is read), but a missing swimPattern only   *)
(* leaves this.pattern undefined: the school is constructed, and its first *)
(* update throws a TypeError in applySwimmingBehavior.                     *)

\* the tables lack creatureType, or the swimPattern of its configuration
Malformed == creatureType \notin tables.types \/ ~PatternDefined

C12_FailsAtConstruction ==
  /\ Malformed => (thrown = "constructor" /\ fishes = <<>>)
  /\ thrown # "update"

---------------------------------------------------------------------------
(* C13  Model loading is non-fatal and apart from the simulation.          *)
(* Whether the load is pending, resolved or rejected: every update has run *)
(* over all N fish and left one matrix per fish, at the position and scale *)
(* of the fish; after a rejected load the mesh has the procedural geometry *)
(* and modelLoaded is false, after a resolved one the geometry of the      *)
(* model and modelLoaded is true; and the step in which the load settles   *)
(* changes no fish, no matrix and not the school time.                     *)

\* the last update wrote a matrix for every fish
AllTransformsWritten ==
  /\ Len(lastTick.moved) = Len(fishes)
  /\ Len(matrices) = Len(fishes)
  /\ \A i \in 1..Len(fishes) :
        /\ matrices[i].position = fishes[i].position
        /\ matrices[i].scale = fishes[i].scale

\* the geometry and the flag that go with the state of the load
GeometryFollowsLoad ==
  /\ load = "rejected" => (mesh.geometry = "procedural" /\ ~modelLoaded)
  /\ load = "pending" => (mesh.geometry = "procedural" /\ ~modelLoaded)
  /\ load = "resolved" => (mesh.geometry = "model" /\ modelLoaded)

C13_LoadApartFromSimulation ==
  /\ [](GeometryFollowsLoad /\ (ticks > 0 => AllTransformsWritten))
  /\ [][load' # load => (fishes' = fishes /\ matrices' = matrices /\ time' = time)]_vars

\* a school updated with its load pending, the load then rejected, and the
\* school updated again with moving fish
C13_Witness ==
  /\ load = "rejected"
  /\ ticks = 2
  /\ lastTick.deltaTime > 0
  /\ AllTransformsWritten
  /\ \E i \in 1..Len(fishes) : fishes[i].position # startFishes[i].position

---------------------------------------------------------------------------
(* C14  Whales stay near the surface.                                      *)
(* After every update of the WhaleController, whatever the number of       *)
(* ticks, the delta times and the drift velocities, the height of every    *)
(* whale is within 3 of the base offset -5: -8 <= y <= -2.  (A new whale   *)
(* is placed between -10 and -5; the first update brings it into range.)   *)

\* the whales of the controller
Whales == whaleController.whales

C14_WhaleHeightBounded ==
  whaleController.time > 0 =>
     \A i \in 1..Len(Whales) :
        /\ Whales[i].position.y >= -8000
        /\ Whales[i].position.y <= -2000

\* well into a run, a drifting whale is at the top of the range while
\* another whale is at the bottom of it
C14_Witness ==
  /\ ticks > SurfacingPeriod \div 4
  /\ \E i, j \in 1..Len(Whales) :
        /\ Whales[i].velocity # Zero
        /\ Whales[i].position.y >= -2010
        /\ Whales[j].position.y <= -7990

---------------------------------------------------------------------------
(* C15  Whale boundary reflection.                                         *)
(* After every update, a whale whose x (or z) is beyond 150 in absolute    *)
(* value has a velocity component on that axis that points back inside:    *)
(* its sign is opposite to the sign of the coordinate.                     *)
(* The code multiplies the component by -0.5 and perturbs it in every tick *)
(* that ends outside the bound, whatever its direction: a whale that rests *)
(* gets no direction, one that heads back inside is turned outward again,  *)
(* and the perturbation of up to 0.05 can outweigh the halved component.   *)
(* Three of the ten whales are constructed outside the bound.              *)

\* component v at coordinate c points back inside the bound
PointsInside(v, c) == Abs(c) > WhaleBound => Sign(v) = -Sign(c)

C15_TurnsBackInside ==
  ticks > 0 =>
     \A i \in 1..Len(Whales) :
        /\ PointsInside(Whales[i].velocity.x, Whales[i].position.x)
        /\ PointsInside(Whales[i].velocity.z, Whales[i].position.z)

---------------------------------------------------------------------------
(* C16  Whale labels fade with distance.                                   *)
(* After every update, the label of a whale shows exactly when the whale   *)
(* is less than 100 from the camera.  Among the labels that show, opacity  *)
(* does not increase with distance, changes by at most 1/70 per unit of    *)
(* distance (no jump), and is between 0 and (100 - distance) / 70, so it   *)
(* reaches 0 at the threshold.  Opacities are in thousandths and compared  *)
(* up to one thousandth.                                                   *)

\* the distance of whale i from the camera of the last update
LabelDistance(i) == DistanceTo(Whales[i].position, lastWhaleTick.cameraPosition)

Shows(i) == Whales[i].label.visible

Opacity(i) == Whales[i].label.opacity

C16_LabelFadesWithDistance ==
  ticks > 0 =>
     \A i \in 1..Len(Whales) :
        /\ Shows(i) <=> LabelDistance(i) < 100000
        /\ Shows(i) => /\ Opacity(i) >= 0
                       /\ Opacity(i) <= (100000 - LabelDistance(i)) \div 70 + 1
        /\ \A j \in 1..Len(Whales) :
              (Shows(i) /\ Shows(j) /\ LabelDistance(i) <= LabelDistance(j)) =>
                 /\ Opacity(i) >= Opacity(j)
                 /\ Opacity(i) - Opacity(j) <= (LabelDistance(j) - LabelDistance(i)) \div 70 + 1

\* after an update one label shows at more than full opacity (its whale is
\* closer than 30), another shows faded, and a third is hidden
C16_Witness ==
  /\ ticks > 0
  /\ \E i, j, k \in 1..Len(Whales) :
        /\ Shows(i) /\ LabelDistance(i) < 30000 /\ Opacity(i) > 1000
        /\ Shows(j) /\ Opacity(j) > 0 /\ Opacity(j) < 1000
        /\ ~Shows(k) /\ LabelDistance(k) >= 100000

---------------------------------------------------------------------------
(* C17  Population sizes are fixed at construction.                        *)
(* In every state a manager reaches by update, updateVisibility,           *)
(* setEnvironmentMap and the settling of the two model loads, the school   *)
(* holds as many fish (and instance matrices) as it was constructed with,  *)
(* config.schoolSize, and the controller holds min(10, number of notable   *)
(* billionaires) whales.                                                   *)
C17_PopulationFixed ==
  /\ Len(fishes) = NumFish
  /\ Len(matrices) = NumFish
  /\ Len(Whales) = Min2(10, Len(NOTABLE_BILLIONAIRES))

\* two updates, both model loads resolved, an environment map set and the
\* school hidden
C17_Witness ==
  /\ ticks = 2
  /\ load = "resolved"
  /\ whaleController.load = "resolved"
  /\ \A i \in 1..Len(Whales) : Whales[i].geometry = "model"
  /\ mesh.envMap = "sky"
  /\ ~mesh.visible
  /\ fishes # startFishes

---------------------------------------------------------------------------
(* C18  The viewer position is only read.                                  *)
(* After CreatureManager.update, updateVisibility or                       *)
(* getCreaturesNearCamera the Vector3 that was passed holds the            *)
(* coordinates it was passed with; within a manager update the same holds  *)
(* after FishSchool.update and after WhaleController.update, so the whales *)
(* are given the position the school was given.                            *)
C18_ViewerUntouched ==
  /\ lastCall.name # "none" => viewer = lastCall.cameraPosition
  /\ ticks > 0 =>
       /\ lastTick.viewer = lastTick.cameraPosition
       /\ lastWhaleTick.cameraPosition = lastTick.cameraPosition
       /\ lastWhaleTick.viewer = lastWhaleTick.cameraPosition

\* a manager update during which a fish fled from the viewer, after which
\* the whales were updated with the same Vector3
C18_Witness ==
  /\ lastCall.name = "CreatureManager.update"
  /\ viewer # StartPosition
  /\ \E i \in 1..Len(lastTick.trace) : lastTick.trace[i].flee # Zero
  /\ lastWhaleTick.before # <<>>
  /\ lastWhaleTick.cameraPosition = lastCall.cameraPosition

---------------------------------------------------------------------------
(* C19  The body wiggle is cosmetic.                                       *)
(* A second school whose fish have the positions and velocities of the     *)
(* first, and phases, swim frequencies and a school time of its own, has,  *)
(* after every tick both are given with the same deltaTime, camera and     *)
(* noise values, the positions and velocities of the first.                *)
C19_WiggleIsCosmetic ==
  restored.ticks > 0 =>
     \A i \in 1..Len(fishes) :
        /\ restored.fishes[i].position = fishes[i].position
        /\ restored.fishes[i].velocity = fishes[i].velocity

\* the twin, placed after the first tick, has been ticked; school times
\* differ; a fish that moved differs from its twin in phase, in swim
\* frequency and in the wiggle angles of its matrix
C19_Witness ==
  /\ restored.ticks > 0
  /\ restored.time > 0
  /\ restored.time # time
  /\ \E i \in 1..Len(fishes) :
        /\ fishes[i].position # startFishes[i].position
        /\ restored.fishes[i].phase # fishes[i].phase
        /\ restored.fishes[i].swimFrequency # fishes[i].swimFrequency
        /\ restored.matrices[i].rotation.rotY # matrices[i].rotation.rotY

---------------------------------------------------------------------------
(* C20  Visibility culling.                                                *)
(* Right after updateVisibility(cameraPosition, viewDistance) the school   *)
(* is visible exactly when | |cameraPosition.y| - (depth.min +             *)
(* depth.max) / 2 | < viewDistance.  A step that changes the visibility    *)
(* changes nothing else of the school or the whales.  After every manager  *)
(* update, whether the school is hidden or not, its fish and matrices are  *)
(* those the loop of update computes from the fish before the update.      *)

\* the school is shown as the last updateVisibility call decided
ShownWhenNear ==
  lastCall.name = "updateVisibility" =>
     (mesh.visible <=>
        Abs(Abs(lastCall.cameraPosition.y) - (DepthRange.min + DepthRange.max) \div 2)
          < lastCall.viewDistance)

\* the last update moved the school as update moves a school
SimulatedInFull ==
  ticks > 0 =>
     \E result \in {UpdateResult(startFishes, time - lastTick.deltaTime, lastTick.deltaTime,
                                 lastTick.cameraPosition, lastTick.rnds)} :
        /\ fishes = result.fishes
        /\ matrices = result.matrices

C20_CullingOnlyHides ==
  /\ [](ShownWhenNear /\ SimulatedInFull)
  /\ [][mesh'.visible # mesh.visible =>
          /\ mesh' = [mesh EXCEPT !.visible = ~@]
          /\ UNCHANGED <<fishes, time, matrices, modelLoaded, load, whaleController>>]_vars

\* a school hidden by updateVisibility with the shorter view distance has
\* been updated: its fish have moved
C20_Witness ==
  /\ ~mesh.visible
  /\ HasMesh(mesh)
  /\ lastCall.name = "CreatureManager.update"
  /\ \E i \in 1..Len(fishes) : fishes[i].position # startFishes[i].position

---------------------------------------------------------------------------
(* C22  Placement at construction.                                         *)
(* As claimed: in a school as constructed every fish has its height within *)
(* the depth band of the bracket, [-depth.max, -depth.min], its horizontal *)
(* distance from the school axis at most schoolRadius, and a positive      *)
(* scale within [baseSize - sizeVariation, baseSize + sizeVariation].      *)
(* initializeFish adds (Math.random() - 0.5) * 200 to x and to z after the *)
(* radius is applied, so a fish can be placed up to 100 beyond the radius  *)
(* along each axis.                                                        *)

\* the distance of the fish from the vertical axis through the school centre
HorizontalDistance(fish) == DistanceTo(Vec(fish.position.x, 0, fish.position.z), Zero)

C22_PlacedWithinBandAndRadius ==
  ticks = 0 =>
     \A i \in 1..Len(fishes) :
        /\ fishes[i].position.y >= -DepthRange.max
        /\ fishes[i].position.y <= -DepthRange.min
        /\ HorizontalDistance(fishes[i]) <= Config.schoolRadius
        /\ fishes[i].scale > 0
        /\ fishes[i].scale >= Config.baseSize - Config.sizeVariation
        /\ fishes[i].scale <= Config.baseSize + Config.sizeVariation

---------------------------------------------------------------------------
(* C25  Interleaved tick order.                                            *)
(* In every update fish i sampled its neighbours, and computed cohesion    *)
(* and separation, on the array in which every fish of lower index is      *)
(* already as the update leaves it (moved, depth-corrected, wrapped) and   *)
(* every fish of higher index is still as it was when the update began.    *)
C25_ReadsUpdatedBelowStaleAbove ==
  ticks > 0 =>
     \A i \in Indices :
        /\ lastTick.trace[i + 1].neighbors = GetNeighbors(ArraySeenBy(i), i, 10)
        /\ lastTick.trace[i + 1].cohesion =
              CohesionForce(ArraySeenBy(i), startFishes[i + 1].position,
                            lastTick.trace[i + 1].neighbors)
        /\ lastTick.trace[i + 1].separation =
              SeparationForce(ArraySeenBy(i), startFishes[i + 1].position,
                              lastTick.trace[i + 1].neighbors)

\* whether n is among the indices in the sequence neighbors
Among(n, neighbors) == \E k \in 1..Len(neighbors) : neighbors[k] = n

\* a fish sampled a neighbour of lower index that had moved in this update
\* and a neighbour of higher index that moved later in it
C25_Witness ==
  /\ ticks > 0
  /\ \E i, j, k \in Indices :
        /\ j < i /\ i < k
        /\ Among(j, lastTick.trace[i + 1].neighbors)
        /\ Among(k, lastTick.trace[i + 1].neighbors)
        /\ fishes[j + 1].position # startFishes[j + 1].position
        /\ fishes[k + 1].position # startFishes[k + 1].position

---------------------------------------------------------------------------
(* C23  Population statistics.                                             *)
(* getStats reports for the school the number of its instances and for    *)
(* the whales the number of whales, and totalCreatures is the sum of the   *)
(* reported counts; with the shipped school sizes and whales the total is  *)
(* at least 10,000.                                                        *)
RECURSIVE SumCounts(_)
SumCounts(details) ==
  IF details = <<>> THEN 0 ELSE Head(details).count + SumCounts(Tail(details))

C23_StatsCountEveryCreature ==
  /\ Len(GetStats.details) = 2
  /\ GetStats.details[1].count = Len(matrices)
  /\ GetStats.details[2].count = Len(whaleController.whales)
  /\ GetStats.totalCreatures = SumCounts(GetStats.details)
  /\ GetStats.totalCreatures = Len(matrices) + Len(whaleController.whales)
  /\ Len(ShippedStats.details) = Len(WEALTH_BRACKETS)
  /\ \A k \in 1..Len(ShippedSchools) :
        ShippedStats.details[k].count =
          CREATURE_TYPES[WEALTH_BRACKETS[k].creature].schoolSize
  /\ ShippedStats.totalCreatures = SumCounts(ShippedStats.details)
  /\ ShippedStats.totalCreatures >= 10000

\* the statistics of a manager that has updated its school and its whales,
\* with a loaded whale model
C23_Witness ==
  /\ ticks > 0
  /\ lastWhaleTick.before # <<>>
  /\ whaleController.load = "resolved"
  /\ GetStats.totalCreatures = NumFish + WhaleCount
  /\ ShippedStats.totalCreatures = 10140

---------------------------------------------------------------------------
(* C30  Load/dispose race.                                                 *)
(* When the model load of a disposed school, or of disposed whales,        *)
(* settles, the disposed object is left as it was: its geometry is not     *)
(* replaced and modelLoaded is not set.                                    *)
SchoolLoadSettling == load = "pending" /\ load' # "pending"

WhaleLoadSettling == whaleController.load = "pending" /\ whaleController'.load # "pending"

C30_LoadLeavesDisposedAlone ==
  [][ /\ (SchoolLoadSettling /\ HasMesh(mesh) /\ ~mesh.inScene) =>
           (mesh'.geometry = mesh.geometry /\ modelLoaded' = modelLoaded)
      /\ (WhaleLoadSettling /\ ~whaleController.inScene) =>
           /\ whaleController'.whales = whaleController.whales
           /\ whaleController'.modelGeometry = whaleController.modelGeometry ]_vars

---------------------------------------------------------------------------
(* C26  Controls follow playback.                                          *)
(* After any sequence of play, stop and update calls the controls are      *)
(* enabled exactly when no path is playing, and a play call whose name is  *)
(* none of the paths of definePaths has changed neither isPlaying nor the  *)
(* enabled flag of the controls.                                           *)
EnabledWhenIdle == app.controls.enabled = ~app.cameraPath.isPlaying

UnknownNameIgnored ==
  (app.cameraPath.call.method = "play" /\ app.cameraPath.call.pathName \notin DOMAIN Paths)
    => /\ app.cameraPath.isPlaying = app.cameraPath.call.wasPlaying
       /\ app.controls.enabled = app.cameraPath.call.wasEnabled

C26_ControlsEnabledIffIdle == EnabledWhenIdle /\ UnknownNameIgnored

---------------------------------------------------------------------------
(* C28  Cinematic playback terminates.                                     *)
(* After play with the name of a path of definePaths, for as long as       *)
(* neither stop nor another play comes between: no update lowers           *)
(* pathProgress; every update of positive deltaTime raises it by at least  *)
(* the smallest deltaTime / pathDuration, so that the playback has ended   *)
(* once these steps add up to 1; when it ends isPlaying is false, the      *)
(* controls are enabled and a given onComplete has been called once; a     *)
(* playback that was stopped, or has not ended, has not called it.         *)

\* the smallest positive deltaTime update is called with
SmallestDelta ==
  CHOOSE d \in PathDeltaTimes : d > 0 /\ \A e \in PathDeltaTimes : e > 0 => d <= e

\* a path of definePaths has been played
ValidPlayback == app.cameraPath.pathDuration > 0

PlaybackAdvances ==
  (ValidPlayback /\ app.cameraPath.isPlaying) =>
     /\ app.cameraPath.updates * ((SmallestDelta * 1000) \div app.cameraPath.pathDuration)
           <= app.cameraPath.pathProgress
     /\ app.cameraPath.pathProgress < FullProgress

PlaybackEndsOnce ==
  /\ (ValidPlayback /\ app.cameraPath.ended = "completed") =>
        /\ ~app.cameraPath.isPlaying
        /\ app.controls.enabled
        /\ app.cameraPath.pathProgress = FullProgress
        /\ app.cameraPath.completions = IF app.cameraPath.onComplete = "null" THEN 0 ELSE 1
  /\ app.cameraPath.ended \in {"no", "stopped"} => app.cameraPath.completions = 0
  /\ (ValidPlayback /\ app.cameraPath.ended = "no") => app.cameraPath.isPlaying

ProgressKept ==
  (ValidPlayback /\ app.cameraPath'.call.method = "update") =>
     app.cameraPath'.pathProgress >= app.cameraPath.pathProgress

C28_PlaybackTerminates ==
  /\ [](PlaybackAdvances /\ PlaybackEndsOnce)
  /\ [][ProgressKept]_vars

\* a playback given a callback that ended after several updates of positive
\* deltaTime, the callback called once
C28_Witness ==
  /\ ValidPlayback
  /\ app.cameraPath.ended = "completed"
  /\ app.cameraPath.onComplete # "null"
  /\ app.cameraPath.completions = 1
  /\ app.cameraPath.updates > 2
  /\ app.controls.enabled

---------------------------------------------------------------------------
(* C21  Frame time clamp.                                                  *)
(* In every frame the deltaTime handed to the controls or the camera path  *)
(* and to CreatureManager.update, and through it to the school and the     *)
(* whales, lies in [0, 0.1] s, whatever the clock measured, also after the *)
(* document was hidden and shown again.                                    *)
C21_DeltaTimeClamped ==
  /\ \A deltaTime \in app.frame.handed : deltaTime >= 0 /\ deltaTime <= 100
  /\ ticks > 0 =>
        /\ lastTick.deltaTime = app.frame.deltaTime
        /\ lastWhaleTick.deltaTime = app.frame.deltaTime
        /\ lastTick.deltaTime >= 0 /\ lastTick.deltaTime <= 100

\* a frame animated 5 s after the document was shown again: the school and
\* the whales were updated with 0.1 s
C21_Witness ==
  /\ ticks > 0
  /\ ~app.clock.autoStart /\ app.clock.running /\ ~app.hidden
  /\ app.frame.delta = 5000
  /\ lastTick.deltaTime = 100
  /\ lastWhaleTick.deltaTime = 100

---------------------------------------------------------------------------
(* C24  Space toggles cinematic mode.                                      *)
(* Space pressed with no path playing and cinematicMode false starts the   *)
(* path theDive; Space pressed while a path is playing leaves isPlaying    *)
(* false, the controls enabled, cinematicMode false, the HUD visible and   *)
(* the cinematic post-processing off (vignette, contrast and depth of      *)
(* field as setCinematicMode(false) sets them).                            *)
CinematicEffectsOff ==
  /\ app.postProcessing.vignette = NewPostProcessing.vignette
  /\ app.postProcessing.contrast = NewPostProcessing.contrast
  /\ ~app.postProcessing.bokeh

C24_SpaceTogglesCinematic ==
  app.key.code = "Space" =>
     /\ (~app.key.wasPlaying /\ ~app.key.wasCinematic) =>
           /\ app.cameraPath.isPlaying
           /\ app.cameraPath.currentPath = "theDive"
     /\ app.key.wasPlaying =>
           /\ ~app.cameraPath.isPlaying
           /\ app.controls.enabled
           /\ ~app.cinematicMode
           /\ app.hud.visible
           /\ CinematicEffectsOff

---------------------------------------------------------------------------
(* C27  Never stuck in cinematic mode.                                     *)
(* After any interleaving of Space, digit keys, window.cinematics calls    *)
(* and frames: whenever cinematicMode is true a camera path is playing.    *)
C27_CinematicModeMeansPlaying == app.cinematicMode => app.cameraPath.isPlaying

---------------------------------------------------------------------------
(* C29  HUD bracket agrees with the manager's.                             *)
(* After a frame with the camera at a height y in [-195, 10], the bracket  *)
(* HUD.update selected is the one getCurrentBracket(y) returns, and its    *)
(* depth band contains |y|.                                                *)
C29_HudBracketIsManagers ==
  (app.frame # NoFrame /\ app.camera.y >= -195000 /\ app.camera.y <= 10000) =>
     /\ app.hud.currentBracket = GetCurrentBracket(app.camera.y).id
     /\ GetCurrentBracket(app.camera.y).depth.min <= Abs(app.camera.y)
     /\ Abs(app.camera.y) <= GetCurrentBracket(app.camera.y).depth.max

=============================================================================
